---------------------------- MODULE Spec2Model ----------------------------
(***************************************************************************)
(* A model of litellm/llms/openai.py.                                      *)
(*                                                                         *)
(* Python values are modelled as strings ("2", "True", "gpt-4", ...), the  *)
(* value None as the string None below, dicts as functions whose DOMAIN is *)
(* the dict's key set, lists as sequences.  The text of an exception       *)
(* (str(e)) is modelled by the set of the known phrases it contains, so    *)
(* that `phrase in str(e)` is set membership.  A list object is a cell of  *)
(* `heap`, and a Python variable that holds a list holds the cell's name,  *)
(* so that two names for one list see each other's appends.                *)
(***************************************************************************)
EXTENDS Integers, Sequences, FiniteSets, TLC

VARIABLES
    \* ---- one invocation of OpenAIChatCompletion.completion ----
    model,            \* argument `model` (a string, or None)
    timeout,          \* argument `timeout`
    acompletion,      \* argument `acompletion`
    headers,          \* argument `headers`
    optional_params,  \* the caller's dict `optional_params`
    messages,         \* local `messages`: None or the name of a heap cell
    heap,             \* list objects: cell name -> sequence of messages
    data,             \* local `data`, the request payload of this attempt
    max_retries,      \* local `max_retries`
    attempt,          \* the loop variable of `for _ in range(2)`
    e,                \* the exception being handled
    pc,               \* position in completion / the awaited coroutine
    log,              \* calls made on logging_obj and on the vendor client
    outcome,          \* how completion() ended: a return value or a raise
    awaited,          \* how awaiting the returned coroutine ended
    \* ---- the configuration classes ----
    class_dict,       \* cls.__dict__ of each configuration class
    inits,            \* the constructor calls made so far: <<[cls, args], ...>>
    \* ---- one call of a map_openai_params method ----
    map_model,            \* argument `model`
    non_default_params,   \* argument `non_default_params`
    map_optional_params,  \* the dict object passed as `optional_params`
    map_optional_params_in, \* its content when the method was called
    map_returned,         \* the mapping the method returned
    map_called,           \* the class whose method ran (None: not yet)
    \* ---- one call of convert_to_chat_model_response_object ----
    response_object,          \* argument `response_object`
    model_response_object,    \* the object passed as `model_response_object`
    model_response_object_in, \* its state when the method was called
    convert_outcome,          \* how the call ended
    \* ---- one invocation of embedding, image_generation or
    \* ---- OpenAITextCompletion.completion ----
    rq_method,           \* the method invoked
    rq_async,            \* argument aembedding / aimg_generation / acompletion
    rq_model,            \* argument `model`
    rq_input,            \* argument `input` (embedding) or `prompt` (image)
    rq_messages,         \* argument `messages` (text completion)
    rq_timeout,          \* argument `timeout`
    rq_optional_params,  \* argument `optional_params` (its default is None)
    rq_log,              \* calls made on logging_obj and on the vendor client
    rq_pc,               \* position: start, in a returned coroutine, done
    rq_outcome,          \* how the method ended
    rq_awaited,          \* how awaiting / iterating what it returned ended
    \* ---- one call of a get_openai_client method ----
    gc_class,            \* the class whose method is called
    gc_args,             \* the arguments other than `client`
    gc_client,           \* argument `client`
    gc_constructed,      \* the OpenAI(...) constructor calls made
    gc_returned,         \* the object returned (None: not yet)
    \* ---- one invocation of OpenAIChatCompletion.ahealth_check ----
    hc_model,            \* argument `model`
    hc_mode,             \* argument `mode`
    hc_messages,         \* argument `messages`
    hc_input,            \* argument `input`
    hc_prompt,           \* argument `prompt`
    hc_log,              \* the client constructed and the vendor requests made
    hc_completion,       \* local `completion`, the raw response
    hc_pc,               \* position: start, awaiting the vendor, done
    hc_outcome           \* how the coroutine ended

vars_completion ==
    <<model, timeout, acompletion, headers, optional_params, messages, heap,
      data, max_retries, attempt, e, pc, log, outcome, awaited>>

vars_config == <<class_dict, inits>>

vars_map ==
    <<map_model, non_default_params, map_optional_params, map_optional_params_in,
      map_returned, map_called>>

vars_convert ==
    <<response_object, model_response_object, model_response_object_in, convert_outcome>>

vars_request ==
    <<rq_method, rq_async, rq_model, rq_input, rq_messages, rq_timeout,
      rq_optional_params, rq_log, rq_pc, rq_outcome, rq_awaited>>

vars_client == <<gc_class, gc_args, gc_client, gc_constructed, gc_returned>>

vars_health ==
    <<hc_model, hc_mode, hc_messages, hc_input, hc_prompt, hc_log, hc_completion,
      hc_pc, hc_outcome>>

\* what an invocation of completion leaves alone
vars_not_completion ==
    <<vars_config, vars_map, vars_convert, vars_request, vars_client,
      vars_health>>

\* what a construction of a configuration object leaves alone
vars_not_config ==
    <<vars_completion, vars_map, vars_convert, vars_request, vars_client,
      vars_health>>

\* what a call of map_openai_params leaves alone
vars_not_map ==
    <<vars_completion, vars_config, vars_convert, vars_request, vars_client,
      vars_health>>

\* what a call of convert_to_chat_model_response_object leaves alone
vars_not_convert ==
    <<vars_completion, vars_config, vars_map, vars_request, vars_client,
      vars_health>>

\* what an invocation of embedding, image_generation or text completion
\* leaves alone
vars_not_request ==
    <<vars_completion, vars_config, vars_map, vars_convert, vars_client,
      vars_health>>

\* what a call of get_openai_client leaves alone
vars_not_client ==
    <<vars_completion, vars_config, vars_map, vars_convert, vars_request,
      vars_health>>

\* what an invocation of ahealth_check leaves alone
vars_not_health ==
    <<vars_completion, vars_config, vars_map, vars_convert, vars_request, vars_client>>

vars ==
    <<vars_completion, vars_config, vars_map, vars_convert, vars_request, vars_client,
      vars_health>>

-----------------------------------------------------------------------------
(* Python values *)

None == "<None>"

\* bool(v) for the values the model uses
Truthy(v) == v \notin {None, "False", "0", "", "{}", "[]"}

\* isinstance(v, int)
IsInt(v) == v \in {"0", "1", "2", "3", "5", "600", "True", "False"}

\* isinstance(v, float)
IsFloat(v) == v \in {"600.0", "0.7", "0.0001"}

\* isinstance(v, httpx.Timeout)
IsHttpxTimeout(v) == v \in {"httpx.Timeout(5.0)"}

\* d.get(k, default)
Get(d, k, default) == IF k \in DOMAIN d THEN d[k] ELSE default

\* d[k] = v
Put(d, k, v) == [x \in DOMAIN d \cup {k} |-> IF x = k THEN v ELSE d[x]]

\* d without key k
Without(d, k) == [x \in DOMAIN d \ {k} |-> d[x]]

\* {**a, **b}
Merge(a, b) == [x \in DOMAIN a \cup DOMAIN b |-> IF x \in DOMAIN b THEN b[x] ELSE a[x]]

EmptyDict == [x \in {} |-> None]

-----------------------------------------------------------------------------
(* Bounds and input domains *)

\* longest message list the caller passes
MaxLen == 3

\* number of configuration objects constructed in one run
MaxInits == 2

\* most choices in a text-completion response
MaxChoices == 2

Roles == {"user", "assistant", "system"}

Contents == {"hi"}

MessageLists ==
    UNION {[1..n -> [role : Roles, content : Contents]] : n \in 0..MaxLen}

\* The phrases of an error text the code looks for.
AltPhrase1 == "Conversation roles must alternate user/assistant"
AltPhrase2 == "user and assistant roles should be alternating"
\* (the source writes the last word between backquotes)
LastPhrase == "Last message must have role user"

\* Errors the vendor client raises: its own exception types, with or without
\* a status_code attribute, with a text containing some of the phrases.
VendorTexts == {{}, {AltPhrase1}, {AltPhrase2}, {LastPhrase}, {AltPhrase1, LastPhrase}}

VendorErrors ==
    [type : {"APIError"}, has_status : {TRUE}, status_code : {400}, str : VendorTexts]
    \cup [type : {"APIConnectionError"}, has_status : {FALSE}, status_code : {0},
          str : VendorTexts]
    \cup {[type |-> "ReadTimeout", has_status |-> FALSE, status_code |-> 0, str |-> {}],
          [type |-> "ReadTimeout", has_status |-> TRUE, status_code |-> 400, str |-> {}]}

NoError == [type |-> None, has_status |-> FALSE, status_code |-> 0, str |-> {}]

\* What one call of chat.completions.create does: answer, or raise.
VendorOutcomes == {NoError} \cup VendorErrors

-----------------------------------------------------------------------------
(* OpenAIError *)

OpenAIError(status_code, message) ==
    [type |-> "OpenAIError", has_status |-> TRUE, status_code |-> status_code,
     str |-> message]

\* traceback.format_exc() while handling exc: the trace ends with exc's text
FormatExc(exc) == exc.str \cup {"Traceback (most recent call last)"}

-----------------------------------------------------------------------------
(* Results of a call *)

Running == [kind |-> "running", value |-> None, error |-> NoError]

Return(v) == [kind |-> "return", value |-> v, error |-> NoError]

Raise(exc) == [kind |-> "raise", value |-> None, error |-> exc]

\* One recorded call on logging_obj or on the vendor client: the payload
\* passed, the content of its message list at the time of the call, for a
\* vendor call the error it raised (NoError when it answered), and the place
\* in the code that made the call.
Called(op, payload, raised) ==
    [op |-> op, payload |-> payload, input |-> heap[payload["messages"]],
     raised |-> raised, at |-> pc]

Event(op, payload) == Called(op, payload, NoError)

-----------------------------------------------------------------------------
(* The alternating-roles rewrite of OpenAIChatCompletion.completion *)

Placeholder(role) == [role |-> role, content |-> ""]

\* ReformatLoop with the two placeholder roles exchanged
RECURSIVE ReformatLoopSwapped(_, _)
ReformatLoopSwapped(msgs, i) ==
    IF i > Len(msgs) - 1
    THEN << >>
    ELSE <<msgs[i]>>
         \o (IF msgs[i].role = msgs[i + 1].role
             THEN IF msgs[i].role = "user"
                  THEN <<Placeholder("user")>>
                  ELSE <<Placeholder("assistant")>>
             ELSE << >>)
         \o ReformatLoopSwapped(msgs, i + 1)

\* the body of `for i in range(len(messages) - 1)`, from index i on
RECURSIVE ReformatLoop(_, _)
ReformatLoop(msgs, i) ==
    IF i > Len(msgs) - 1
    THEN << >>
    ELSE <<msgs[i]>>
         \o (IF msgs[i].role = msgs[i + 1].role
             THEN IF msgs[i].role = "user"
                  THEN <<Placeholder("assistant")>>
                  ELSE <<Placeholder("user")>>
             ELSE << >>)
         \o ReformatLoop(msgs, i + 1)

\* Reformat without the closing `new_messages.append(messages[-1])`
ReformatWithoutLast(msgs) == ReformatLoop(msgs, 1)

\* new_messages after the loop and `new_messages.append(messages[-1])`;
\* the caller of this operator guards against the empty list (IndexError)
Reformat(msgs) == ReformatLoop(msgs, 1) \o <<msgs[Len(msgs)]>>

-----------------------------------------------------------------------------
(* OpenAIChatCompletion.completion *)

NoData == EmptyDict

CallerList == "caller_messages"

\* the list object that the k-th rewrite allocates as new_messages
NewList(k) == IF k = 0 THEN "new_messages_1" ELSE "new_messages_2"

Cells == {CallerList, NewList(0), NewList(1)}

InputOptionalParams ==
    {Merge([k \in {"temperature"} |-> "0.7"], Merge(s, r)) :
        s \in {EmptyDict} \cup {[k \in {"stream"} |-> v] : v \in {"True", "False"}},
        r \in {EmptyDict} \cup {[k \in {"max_retries"} |-> v] : v \in {"5", "two"}}}

InitCompletion ==
    /\ model \in {None, "gpt-4"}
    /\ timeout \in {"600.0", "httpx.Timeout(5.0)", "600"}
    /\ acompletion \in BOOLEAN
    /\ headers \in {None, "{}", "{X-Org: a}"}
    /\ optional_params \in InputOptionalParams
    /\ \/ /\ messages = None
          /\ heap = [c \in Cells |-> << >>]
       \/ /\ messages = CallerList
          /\ \E given \in MessageLists :
                heap = [c \in Cells |-> IF c = CallerList THEN given ELSE << >>]
    /\ data = NoData
    /\ max_retries = None
    /\ attempt = 0
    /\ e = NoError
    /\ pc = "start"
    /\ log = << >>
    /\ outcome = Running
    /\ awaited = Running

\* Validate without the test of the timeout's type
ValidateTimeoutUnchecked ==
    /\ pc = "start"
    /\ optional_params' = IF Truthy(headers)
                          THEN Put(optional_params, "extra_headers", headers)
                          ELSE optional_params
    /\ IF model = None \/ messages = None
       THEN /\ e' = OpenAIError(422, {"Missing model or messages"})
            /\ pc' = "except_outer"
            /\ UNCHANGED attempt
       ELSE /\ pc' = "for"
            /\ attempt' = 0
            /\ UNCHANGED e
    /\ UNCHANGED <<model, timeout, acompletion, headers, messages, heap, data,
                   max_retries, log, outcome, awaited>>
    /\ UNCHANGED vars_not_completion

\* lines 523-535: the header copy and the two validations
Validate ==
    /\ pc = "start"
    /\ optional_params' = IF Truthy(headers)
                          THEN Put(optional_params, "extra_headers", headers)
                          ELSE optional_params
    /\ IF model = None \/ messages = None
       THEN /\ e' = OpenAIError(422, {"Missing model or messages"})
            /\ pc' = "except_outer"
            /\ UNCHANGED attempt
       ELSE IF ~IsFloat(timeout) /\ ~IsHttpxTimeout(timeout)
       THEN /\ e' = OpenAIError(422, {"Timeout needs to be a float or httpx.Timeout"})
            /\ pc' = "except_outer"
            /\ UNCHANGED attempt
       ELSE /\ pc' = "for"
            /\ attempt' = 0
            /\ UNCHANGED e
    /\ UNCHANGED <<model, timeout, acompletion, headers, messages, heap, data,
                   max_retries, log, outcome, awaited>>
    /\ UNCHANGED vars_not_completion

\* ForBody that pops max_retries from optional_params itself
ForBodyPopsOptionalParams ==
    /\ pc = "for"
    /\ attempt < 2
    /\ max_retries' = Get(optional_params, "max_retries", "2")
    /\ optional_params' = Without(optional_params, "max_retries")
    /\ data' = Merge([k \in {"model", "messages"} |->
                         IF k = "model" THEN model ELSE messages],
                     optional_params')
    /\ pc' = "dispatch"
    /\ UNCHANGED <<model, timeout, acompletion, headers, messages,
                   heap, attempt, e, log, outcome, awaited>>
    /\ UNCHANGED vars_not_completion

\* ForBody whose second iteration builds the payload without optional_params
ForBodyRetryWithoutParams ==
    /\ pc = "for"
    /\ attempt < 2
    /\ LET built == Merge([k \in {"model", "messages"} |->
                              IF k = "model" THEN model ELSE messages],
                          IF attempt = 0 THEN optional_params ELSE EmptyDict)
       IN /\ max_retries' = Get(built, "max_retries", "2")
          /\ data' = Without(built, "max_retries")
    /\ pc' = "dispatch"
    /\ UNCHANGED <<model, timeout, acompletion, headers, optional_params, messages,
                   heap, attempt, e, log, outcome, awaited>>
    /\ UNCHANGED vars_not_completion

\* lines 555-561: one more iteration of `for _ in range(2)`: build the
\* payload and pop max_retries from it
ForBody ==
    /\ pc = "for"
    /\ attempt < 2
    /\ LET built == Merge([k \in {"model", "messages"} |->
                              IF k = "model" THEN model ELSE messages],
                          optional_params)
       IN /\ max_retries' = Get(built, "max_retries", "2")
          /\ data' = Without(built, "max_retries")
    /\ pc' = "dispatch"
    /\ UNCHANGED <<model, timeout, acompletion, headers, optional_params, messages,
                   heap, attempt, e, log, outcome, awaited>>
    /\ UNCHANGED vars_not_completion

\* line 555: range(2) is exhausted; the method ends without a return statement
ForExhausted ==
    /\ pc = "for"
    /\ attempt >= 2
    /\ outcome' = Return(None)
    /\ pc' = "done"
    /\ UNCHANGED <<model, timeout, acompletion, headers, optional_params, messages,
                   heap, data, max_retries, attempt, e, log, awaited>>
    /\ UNCHANGED vars_not_completion

\* the keyword arguments of the OpenAI(...) / AsyncOpenAI(...) constructor call
ClientEvent(cls) ==
    [op |-> cls,
     payload |-> [k \in {"max_retries", "timeout"} |->
                     IF k = "max_retries" THEN max_retries ELSE timeout],
     input |-> << >>,
     raised |-> NoError]

\* Stream that tests the presence of the key, not its value
StreamKeyPresent == "stream" \in DOMAIN optional_params

\* lines 563, 589: optional_params.get("stream", False)
Stream == Truthy(Get(optional_params, "stream", "False"))

\* lines 562-575: acompletion is True and stream is set: the coroutine of
\* async_streaming is returned, not yet run
CallAsyncStreaming ==
    /\ pc = "dispatch"
    /\ acompletion = TRUE
    /\ Stream
    /\ outcome' = Return("coroutine async_streaming")
    /\ pc' = "async_streaming"
    /\ UNCHANGED <<model, timeout, acompletion, headers, optional_params, messages,
                   heap, data, max_retries, attempt, e, log, awaited>>
    /\ UNCHANGED vars_not_completion

\* lines 576-588: acompletion is True, no stream: the coroutine of acompletion
CallAcompletion ==
    /\ pc = "dispatch"
    /\ acompletion = TRUE
    /\ ~Stream
    /\ outcome' = Return("coroutine acompletion")
    /\ pc' = "acompletion"
    /\ UNCHANGED <<model, timeout, acompletion, headers, optional_params, messages,
                   heap, data, max_retries, attempt, e, log, awaited>>
    /\ UNCHANGED vars_not_completion

\* lines 589-601 and 751-772: self.streaming(...) up to its vendor call
CallStreaming ==
    /\ pc = "dispatch"
    /\ acompletion # TRUE
    /\ Stream
    /\ log' = log \o <<ClientEvent("OpenAI"), Event("pre_call", data)>>
    /\ pc' = "streaming_create"
    /\ UNCHANGED <<model, timeout, acompletion, headers, optional_params, messages,
                   heap, data, max_retries, attempt, e, outcome, awaited>>
    /\ UNCHANGED vars_not_completion

\* lines 773-781: the vendor call of self.streaming and the stream wrapper
StreamingCreate ==
    /\ pc = "streaming_create"
    /\ \E r \in VendorOutcomes :
          /\ log' = Append(log, Called("create", data, r))
          /\ IF r = NoError
             THEN /\ outcome' = Return("CustomStreamWrapper")
                  /\ pc' = "done"
                  /\ UNCHANGED e
             ELSE /\ e' = r
                  /\ pc' = "except_inner"
                  /\ UNCHANGED outcome
    /\ UNCHANGED <<model, timeout, acompletion, headers, optional_params, messages,
                   heap, data, max_retries, attempt, awaited>>
    /\ UNCHANGED vars_not_completion

\* SyncPreCall that constructs the client and does not log pre_call
SyncPreCallUnlogged ==
    /\ pc = "dispatch"
    /\ acompletion # TRUE
    /\ ~Stream
    /\ IF ~IsInt(max_retries)
       THEN /\ e' = OpenAIError(422, {"max retries must be an int"})
            /\ pc' = "except_inner"
            /\ UNCHANGED log
       ELSE /\ log' = log \o <<ClientEvent("OpenAI")>>
            /\ pc' = "create"
            /\ UNCHANGED e
    /\ UNCHANGED <<model, timeout, acompletion, headers, optional_params, messages,
                   heap, data, max_retries, attempt, outcome, awaited>>
    /\ UNCHANGED vars_not_completion

\* lines 602-629: the in-line synchronous call up to its vendor call
SyncPreCall ==
    /\ pc = "dispatch"
    /\ acompletion # TRUE
    /\ ~Stream
    /\ IF ~IsInt(max_retries)
       THEN /\ e' = OpenAIError(422, {"max retries must be an int"})
            /\ pc' = "except_inner"
            /\ UNCHANGED log
       ELSE /\ log' = log \o <<ClientEvent("OpenAI"), Event("pre_call", data)>>
            /\ pc' = "create"
            /\ UNCHANGED e
    /\ UNCHANGED <<model, timeout, acompletion, headers, optional_params, messages,
                   heap, data, max_retries, attempt, outcome, awaited>>
    /\ UNCHANGED vars_not_completion

\* line 631: openai_client.chat.completions.create(**data, timeout=timeout)
SyncCreate ==
    /\ pc = "create"
    /\ \E r \in VendorOutcomes :
          /\ log' = Append(log, Called("create", data, r))
          /\ IF r = NoError
             THEN /\ pc' = "post_call"
                  /\ UNCHANGED e
             ELSE /\ e' = r
                  /\ pc' = "except_inner"
    /\ UNCHANGED <<model, timeout, acompletion, headers, optional_params, messages,
                   heap, data, max_retries, attempt, outcome, awaited>>
    /\ UNCHANGED vars_not_completion

\* lines 632-642: post_call, then the converted response is returned
SyncReturn ==
    /\ pc = "post_call"
    /\ log' = Append(log, Event("post_call", data))
    /\ outcome' = Return("ModelResponse")
    /\ pc' = "done"
    /\ UNCHANGED <<model, timeout, acompletion, headers, optional_params, messages,
                   heap, data, max_retries, attempt, e, awaited>>
    /\ UNCHANGED vars_not_completion

\* WantsReformat that also answers to the closing-user-message phrase
WantsReformatAlsoOnLast(exc) ==
    (AltPhrase1 \in exc.str \/ AltPhrase2 \in exc.str \/ LastPhrase \in exc.str)
        /\ messages # None

\* lines 646-649: the text asks for the alternating-roles rewrite
WantsReformat(exc) ==
    (AltPhrase1 \in exc.str \/ AltPhrase2 \in exc.str) /\ messages # None

\* WantsLastUser without the test of the error text
WantsLastUserAnyError(exc) == messages # None

\* lines 665-667: the text asks for a closing user message
WantsLastUser(exc) == LastPhrase \in exc.str /\ messages # None

IndexError ==
    [type |-> "IndexError", has_status |-> FALSE, status_code |-> 0,
     str |-> {"list index out of range"}]

\* lines 643-672: the handler of the attempt's try block
ExceptInner ==
    /\ pc = "except_inner"
    /\ IF WantsReformat(e)
       THEN IF Len(heap[messages]) = 0
            THEN \* messages[-1] of an empty list
                 /\ e' = IndexError
                 /\ pc' = "except_outer"
                 /\ UNCHANGED <<messages, heap, attempt>>
            ELSE /\ heap' = [heap EXCEPT ![NewList(attempt)] = Reformat(heap[messages])]
                 /\ messages' = NewList(attempt)
                 /\ attempt' = attempt + 1
                 /\ pc' = "for"
                 /\ UNCHANGED e
       ELSE IF WantsLastUser(e)
       THEN \* new_messages is another name of the same list object
            /\ heap' = [heap EXCEPT ![messages] = Append(@, Placeholder("user"))]
            /\ attempt' = attempt + 1
            /\ pc' = "for"
            /\ UNCHANGED <<messages, e>>
       ELSE /\ pc' = "except_outer"
            /\ UNCHANGED <<messages, heap, attempt, e>>
    /\ UNCHANGED <<model, timeout, acompletion, headers, optional_params, data,
                   max_retries, log, outcome, awaited>>
    /\ UNCHANGED vars_not_completion

\* NormalizeError without the status_code branch
NormalizeErrorAlways500(exc) ==
    IF exc.type = "OpenAIError"
    THEN exc
    ELSE OpenAIError(500, FormatExc(exc))

\* lines 673-680: what the two outer handlers raise for exc
NormalizeError(exc) ==
    IF exc.type = "OpenAIError"
    THEN exc
    ELSE IF exc.has_status
    THEN OpenAIError(exc.status_code, exc.str)
    ELSE OpenAIError(500, FormatExc(exc))

\* lines 673-680: the outer handlers end the invocation with a raise
ExceptOuter ==
    /\ pc = "except_outer"
    /\ outcome' = Raise(NormalizeError(e))
    /\ pc' = "done"
    /\ UNCHANGED <<model, timeout, acompletion, headers, optional_params, messages,
                   heap, data, max_retries, attempt, e, log, awaited>>
    /\ UNCHANGED vars_not_completion

-----------------------------------------------------------------------------
(* OpenAIChatCompletion.acompletion, awaited by the caller *)

\* lines 695-719: client and pre_call
AcompletionPreCall ==
    /\ pc = "acompletion"
    /\ log' = log \o <<ClientEvent("AsyncOpenAI"), Event("pre_call", data)>>
    /\ pc' = "acompletion_create"
    /\ UNCHANGED <<model, timeout, acompletion, headers, optional_params, messages,
                   heap, data, max_retries, attempt, e, outcome, awaited>>
    /\ UNCHANGED vars_not_completion

\* lines 735-736: `except Exception as e: raise e`
AcompletionError(exc) == exc

\* lines 721-736: the vendor call; post_call and the response, or the handler
AcompletionCreate ==
    /\ pc = "acompletion_create"
    /\ \E r \in VendorOutcomes :
          IF r = NoError
          THEN /\ log' = log \o <<Event("create", data), Event("post_call", data)>>
               /\ awaited' = Return("ModelResponse")
               /\ UNCHANGED e
          ELSE /\ log' = Append(log, Called("create", data, r))
               /\ e' = r
               /\ awaited' = Raise(AcompletionError(r))
    /\ pc' = "done"
    /\ UNCHANGED <<model, timeout, acompletion, headers, optional_params, messages,
                   heap, data, max_retries, attempt, outcome>>
    /\ UNCHANGED vars_not_completion

-----------------------------------------------------------------------------
(* OpenAIChatCompletion.async_streaming, awaited by the caller *)

\* lines 796-819: client and pre_call
AsyncStreamingPreCall ==
    /\ pc = "async_streaming"
    /\ log' = log \o <<ClientEvent("AsyncOpenAI"), Event("pre_call", data)>>
    /\ pc' = "async_streaming_create"
    /\ UNCHANGED <<model, timeout, acompletion, headers, optional_params, messages,
                   heap, data, max_retries, attempt, e, outcome, awaited>>
    /\ UNCHANGED vars_not_completion

\* What `response` holds when the handler runs: None when the vendor call
\* raised, else the object it returned, with or without an attribute `text`.
StreamResponses == {"AsyncStream", "httpx.Response"}

\* hasattr(response, "text")
HasText(response) == response = "httpx.Response"

\* What CustomStreamWrapper(...) does with the response: returns, or raises.
WrapperOutcomes == {NoError} \cup {x \in VendorErrors : x.str = {}}

\* the construction of the stream wrapper around `response`
WrapperEvent(response, raised) ==
    [op |-> "CustomStreamWrapper",
     payload |-> [k \in {"completion_stream"} |-> response],
     input |-> << >>, raised |-> raised, at |-> pc]

\* AsyncStreamingError that tests status_code before the type's name
AsyncStreamingErrorStatusFirst(exc, response) ==
    IF response # None /\ HasText(response)
    THEN OpenAIError(500, exc.str \cup {"Original Response"})
    ELSE IF exc.has_status
    THEN OpenAIError(exc.status_code, exc.str)
    ELSE IF exc.type = "ReadTimeout"
    THEN OpenAIError(408, {"ReadTimeout"})
    ELSE OpenAIError(500, exc.str)

\* lines 831-846: what the handler raises for exc, given `response`
AsyncStreamingError(exc, response) ==
    IF response # None /\ HasText(response)
    THEN OpenAIError(500, exc.str \cup {"Original Response"})
    ELSE IF exc.type = "ReadTimeout"
    THEN OpenAIError(408, {"ReadTimeout"})
    ELSE IF exc.has_status
    THEN OpenAIError(exc.status_code, exc.str)
    ELSE OpenAIError(500, exc.str)

\* lines 821-846: the vendor call and the stream wrapper, or the handler
AsyncStreamingCreate ==
    /\ pc = "async_streaming_create"
    /\ \E r \in VendorOutcomes :
          IF r = NoError
          THEN \E response \in StreamResponses, w \in WrapperOutcomes :
                  /\ log' = log \o <<Called("create", data, r),
                                      WrapperEvent(response, w)>>
                  /\ IF w = NoError
                     THEN /\ awaited' = Return("CustomStreamWrapper")
                          /\ UNCHANGED e
                     ELSE /\ e' = w
                          /\ awaited' = Raise(AsyncStreamingError(w, response))
          ELSE /\ log' = Append(log, Called("create", data, r))
               /\ e' = r
               /\ awaited' = Raise(AsyncStreamingError(r, None))
    /\ pc' = "done"
    /\ UNCHANGED <<model, timeout, acompletion, headers, optional_params, messages,
                   heap, data, max_retries, attempt, outcome>>
    /\ UNCHANGED vars_not_completion

-----------------------------------------------------------------------------

NextCompletion ==
    \/ Validate
    \/ ForBody
    \/ ForExhausted
    \/ CallAsyncStreaming
    \/ CallAcompletion
    \/ CallStreaming
    \/ StreamingCreate
    \/ SyncPreCall
    \/ SyncCreate
    \/ SyncReturn
    \/ ExceptInner
    \/ ExceptOuter
    \/ AcompletionPreCall
    \/ AcompletionCreate
    \/ AsyncStreamingPreCall
    \/ AsyncStreamingCreate

\* no invocation of completion is under way
IdleCompletion ==
    /\ model = None
    /\ timeout = None
    /\ acompletion = FALSE
    /\ headers = None
    /\ optional_params = EmptyDict
    /\ messages = None
    /\ heap = [c \in Cells |-> << >>]
    /\ data = NoData
    /\ max_retries = None
    /\ attempt = 0
    /\ e = NoError
    /\ pc = "idle"
    /\ log = << >>
    /\ outcome = Running
    /\ awaited = Running

-----------------------------------------------------------------------------
(* Properties of OpenAIChatCompletion.completion *)

IsCreate(ev) == ev.op = "create"

\* the vendor chat-completions calls made so far, in order
Creates == SelectSeq(log, IsCreate)

RetryTriggers == {AltPhrase1, AltPhrase2, LastPhrase}

HasTrigger(exc) == exc.str \cap RetryTriggers # {}

\* completion() took the synchronous path (or was rejected before any path)
SyncDone == pc = "done" /\ outcome.kind # "running" /\ awaited.kind = "running"
               /\ outcome.value \notin {"coroutine acompletion", "coroutine async_streaming"}

StrictUserAssistant(msgs) ==
    \A i \in 1..(Len(msgs) - 1) : {msgs[i].role, msgs[i + 1].role} = {"user", "assistant"}

OnlyUserAssistant(msgs) == \A i \in 1..Len(msgs) : msgs[i].role \in {"user", "assistant"}

\* the retry was made, and it followed the alternating-roles rewrite
RetriedAfterReformat ==
    /\ Len(Creates) = 2
    /\ (AltPhrase1 \in Creates[1].raised.str \/ AltPhrase2 \in Creates[1].raised.str)

\* C1: in one invocation the vendor chat call is attempted at most twice, and
\* a second attempt is made only after a first attempt that failed with an
\* error whose text contains one of the three role-ordering phrases; after any
\* other failure no further attempt is made.
C1_AtMostTwoAttempts ==
    /\ Len(Creates) <= 2
    /\ Len(Creates) = 2 => HasTrigger(Creates[1].raised)
    /\ (Len(Creates) >= 1 /\ Creates[1].raised # NoError /\ ~HasTrigger(Creates[1].raised))
          => (Len(Creates) = 1 /\ pc \in {"except_inner", "except_outer", "done"})

\* C1 witness: an invocation that made its second vendor call and ended
C1_Witness == Len(Creates) = 2 /\ pc = "done"

\* C2 as stated: after the rewrite, whatever the roles of the input, every two
\* adjacent messages of the list used for the retry are one 'user' and one
\* 'assistant'.
C2_Original == RetriedAfterReformat => StrictUserAssistant(Creates[2].input)

\* C2 amended: when every message of the list the caller passed has role
\* 'user' or 'assistant', every two adjacent messages of the rewritten list
\* used for the retry are one 'user' and one 'assistant'.
C2_AlternatesWhenOnlyUserAssistant ==
    (RetriedAfterReformat /\ OnlyUserAssistant(Creates[1].input))
        => StrictUserAssistant(Creates[2].input)

\* C2 witness: the retry after a rewrite of a user/assistant list into which
\* a placeholder was inserted
C2_Witness ==
    /\ RetriedAfterReformat
    /\ OnlyUserAssistant(Creates[1].input)
    /\ Len(Creates[2].input) > Len(Creates[1].input)

\* C3: every invocation on the synchronous path ends by returning a response
\* object or by raising OpenAIError; in particular not by returning None after
\* two role-ordering failures.
C3_SyncReturnsResponseOrRaisesOpenAIError ==
    SyncDone =>
        \/ outcome.kind = "return" /\ outcome.value \in {"ModelResponse", "CustomStreamWrapper"}
        \/ outcome.kind = "raise" /\ outcome.error.type = "OpenAIError"

\* C4: on the synchronous path a vendor failure that is not a retry trigger
\* reaches the caller as OpenAIError with the vendor error's status_code when
\* it has one and 500 otherwise; an OpenAIError raised inside the method
\* reaches the caller unchanged.
C4_SyncErrorNormalized ==
    (SyncDone /\ outcome.kind = "raise") =>
        /\ outcome.error.type = "OpenAIError"
        /\ (Len(log) > 0 /\ log[Len(log)].op = "create"
               /\ ~HasTrigger(log[Len(log)].raised))
              => outcome.error.status_code =
                    IF log[Len(log)].raised.has_status
                    THEN log[Len(log)].raised.status_code
                    ELSE 500
        /\ e.type = "OpenAIError"
              => (outcome.error = e /\ e.status_code = 422
                    /\ e.str \in {{"Missing model or messages"},
                                  {"Timeout needs to be a float or httpx.Timeout"},
                                  {"max retries must be an int"}})

\* C4 witness: the vendor failed with a status code and no trigger phrase, and
\* the caller got that status code
C4_Witness ==
    /\ SyncDone
    /\ outcome.kind = "raise"
    /\ Len(Creates) = 1
    /\ Creates[1].raised.has_status
    /\ ~HasTrigger(Creates[1].raised)
    /\ outcome.error.status_code = 400

\* C5: a vendor error on the asynchronous non-streaming path reaches the
\* caller as OpenAIError, and a roles-must-alternate error there is followed by
\* the rewrite and one retry.
C5_AsyncErrorNormalizedAndRetried ==
    (pc = "done" /\ outcome.value = "coroutine acompletion" /\ Len(Creates) >= 1
        /\ Creates[1].raised # NoError) =>
        /\ awaited.kind = "raise" => awaited.error.type = "OpenAIError"
        /\ (AltPhrase1 \in Creates[1].raised.str /\ Len(heap[CallerList]) > 0)
              => (Len(Creates) = 2 /\ Creates[2].input = Reformat(heap[CallerList]))

-----------------------------------------------------------------------------
(* The configuration classes: MistralConfig, DeepInfraConfig, OpenAIConfig, *)
(* OpenAITextCompletionConfig                                               *)

ConfigClasses ==
    {"MistralConfig", "DeepInfraConfig", "OpenAIConfig", "OpenAITextCompletionConfig"}

\* the class attributes declared with a None default, which are also the
\* keyword parameters of __init__
Options(cls) ==
    CASE cls = "MistralConfig" ->
            {"temperature", "top_p", "max_tokens", "tools", "tool_choice",
             "random_seed", "safe_prompt", "response_format"}
      [] cls = "DeepInfraConfig" ->
            {"frequency_penalty", "function_call", "functions", "logit_bias",
             "max_tokens", "n", "presence_penalty", "stop", "temperature", "top_p",
             "response_format", "tools", "tool_choice"}
      [] cls = "OpenAIConfig" ->
            {"frequency_penalty", "function_call", "functions", "logit_bias",
             "max_tokens", "n", "presence_penalty", "stop", "temperature", "top_p",
             "response_format"}
      [] cls = "OpenAITextCompletionConfig" ->
            {"best_of", "echo", "frequency_penalty", "logit_bias", "logprobs",
             "max_tokens", "n", "presence_penalty", "stop", "suffix", "temperature",
             "top_p"}

\* the functions defined in the class body
Methods(cls) ==
    {"__init__"}
    \cup (CASE cls = "MistralConfig" ->
                {"get_supported_openai_params", "_map_tool_choice", "map_openai_params"}
            [] cls = "DeepInfraConfig" ->
                {"get_supported_openai_params", "map_openai_params"}
            [] cls = "OpenAIConfig" ->
                {"get_supported_openai_params", "map_openai_params"}
            [] cls = "OpenAITextCompletionConfig" ->
                {"convert_to_chat_model_response_object"})

\* names in a class __dict__ that start with two underscores
Dunder == {"__module__", "__doc__", "__annotations__", "__init__", "__dict__",
           "__weakref__"}

\* k.startswith("__")
StartsWithDunder(k) == k \in Dunder

\* isinstance(v, (FunctionType, BuiltinFunctionType, classmethod, staticmethod))
IsFunctionLike(v) == v \in {"<function>", "<classmethod>", "<staticmethod>"}

\* cls.__dict__ when the module has been imported
ClassBody(cls) ==
    [k \in Options(cls) \cup Methods(cls) \cup {"get_config"} \cup (Dunder \ {"__init__"}) |->
        IF k \in Options(cls) THEN None
        ELSE IF k = "get_config" THEN "<classmethod>"
        ELSE IF k \in Methods(cls) THEN "<function>"
        ELSE IF k = "__doc__" /\ cls = "DeepInfraConfig" THEN "Reference: ..."
        ELSE "<attribute>"]

\* get_config without the `v is not None` test
ConfigOfKeepNone(d) ==
    [k \in {x \in DOMAIN d : ~StartsWithDunder(x) /\ ~IsFunctionLike(d[x])} |-> d[k]]

\* get_config (lines 104-120, 207-223, 317-333, 441-457) on the class dict d
ConfigOf(d) ==
    [k \in {x \in DOMAIN d :
                ~StartsWithDunder(x) /\ ~IsFunctionLike(d[x]) /\ d[x] # None} |-> d[k]]

get_config(cls) == ConfigOf(class_dict[cls])

\* SetAttrs that also assigns the arguments that are None
SetAttrsAll(d, args) ==
    [k \in DOMAIN d \cup DOMAIN args |-> IF k \in DOMAIN args THEN args[k] ELSE d[k]]

\* the loop of __init__ (lines 99-102, 202-205, 312-315, 436-439):
\* setattr(self.__class__, key, value) for every argument that is not None
SetAttrs(d, args) ==
    [k \in DOMAIN d \cup {x \in DOMAIN args : args[x] # None} |->
        IF k \in DOMAIN args /\ args[k] # None THEN args[k] ELSE d[k]]

\* Argument lists of one constructor call: nothing passed, one option passed
\* (the value "1"), or every option passed (the value "2").
InitArgs(cls) ==
    {[k \in Options(cls) |-> None]}
    \cup {[k \in Options(cls) |-> IF k = o THEN "1" ELSE None] : o \in Options(cls)}
    \cup {[k \in Options(cls) |-> "2"]}

InitConfig ==
    /\ class_dict = [cls \in ConfigClasses |-> ClassBody(cls)]
    /\ inits = << >>

\* cls(**args): __init__ of a configuration class
Construct ==
    /\ Len(inits) < MaxInits
    /\ \E cls \in ConfigClasses :
          \E args \in InitArgs(cls) :
              /\ class_dict' = [class_dict EXCEPT ![cls] = SetAttrs(@, args)]
              /\ inits' = Append(inits, [cls |-> cls, args |-> args])
    /\ UNCHANGED vars_not_config

NextConfig == Construct

\* the arguments of the calls so far that constructed cls
ArgsPassed(cls) == {inits[i].args : i \in {j \in 1..Len(inits) : inits[j].cls = cls}}

SameEntry(f, g, k) ==
    /\ k \in DOMAIN f <=> k \in DOMAIN g
    /\ k \in DOMAIN f => f[k] = g[k]

\* C6 as stated: constructing configuration objects never changes what
\* get_config() returns: after any sequence of constructions it equals what it
\* returned before the first one.
C6_Original ==
    \A cls \in ConfigClasses : get_config(cls) = ConfigOf(ClassBody(cls))

\* C6 amended: a construction changes get_config() of its own class at exactly
\* the options it was passed a non-null value for, which map to that value
\* afterwards; the entries of the options passed as null, and get_config() of
\* every other class, stay as they were.
C6_ConstructionChangesOnlyPassedOptions ==
    [][Len(inits') = Len(inits) + 1 =>
         LET call == inits'[Len(inits')] IN
         \A cls \in ConfigClasses :
            LET before == ConfigOf(class_dict[cls])
                after == ConfigOf(class_dict'[cls])
            IN  /\ DOMAIN after \subseteq DOMAIN before \cup Options(cls)
                /\ \A k \in DOMAIN before \cup Options(cls) :
                      IF cls = call.cls /\ k \in DOMAIN call.args /\ call.args[k] # None
                      THEN k \in DOMAIN after /\ after[k] = call.args[k]
                      ELSE SameEntry(before, after, k)]_vars

\* C6 witness: a class was constructed twice, the second time with nothing
\* passed for an option that the first call had set, and the entry is there
C6_Witness ==
    /\ Len(inits) = 2
    /\ inits[1].cls = inits[2].cls
    /\ \E k \in Options(inits[1].cls) :
          /\ inits[1].args[k] # None
          /\ inits[2].args[k] = None
          /\ k \in DOMAIN get_config(inits[1].cls)

\* C7: get_config() of a class never constructed with a non-null argument is
\* the empty mapping, and get_config() never has a key with a null value nor a
\* key that is not a declared option of the class.
C7_ConfigHasOnlyNonNullDeclaredOptions ==
    \A cls \in ConfigClasses :
        /\ \A k \in DOMAIN get_config(cls) : get_config(cls)[k] # None
        /\ DOMAIN get_config(cls) \subseteq Options(cls)
        /\ (\A a \in ArgsPassed(cls) : \A k \in DOMAIN a : a[k] = None)
              => get_config(cls) = EmptyDict

\* C7 witness: one class was constructed with nothing passed and has an empty
\* get_config(), another was passed a value and shows it
C7_Witness ==
    /\ \E cls \in ConfigClasses :
          /\ ArgsPassed(cls) # {}
          /\ get_config(cls) = EmptyDict
    /\ \E cls \in ConfigClasses : get_config(cls) # EmptyDict


-----------------------------------------------------------------------------
(* map_openai_params of OpenAIConfig, MistralConfig and DeepInfraConfig *)

Range(seq) == {seq[i] : i \in 1..Len(seq)}

\* the text of the dict {k: v}
DictOf(k, v) == "{" \o k \o ": " \o v \o "}"

\* isinstance(v, str), for the values a parameter takes in the model
IsStr(v) == v \in {"auto", "none", "required", "any", "foo"}

\* v == True
EqualsTrue(v) == v \in {"True", "1"}

\* v == 0
EqualsZero(v) == v \in {"0", "0.0", "False"}

\* the order in which .items() yields the keys of the dicts of the model
KeyOrder ==
    <<"temperature", "tool_choice", "seed", "response_format", "stream", "top_k",
      "extra_body">>

InDict(d) == LET Test(k) == k \in DOMAIN d IN SelectSeq(KeyOrder, Test)

\* get_supported_openai_params that withholds response_format from gpt-4 only
OpenAIConfig_get_supported_except_gpt4(m) ==
    <<"frequency_penalty", "logit_bias", "logprobs", "top_logprobs",
      "max_tokens", "n", "presence_penalty", "seed", "stop", "stream",
      "stream_options", "temperature", "top_p", "tools", "tool_choice",
      "user", "function_call", "functions", "max_retries", "extra_headers">>
    \o (IF m # "gpt-4" THEN <<"response_format">> ELSE << >>)

\* lines 335-365
OpenAIConfig_get_supported_openai_params(m) ==
    LET base_params ==
            <<"frequency_penalty", "logit_bias", "logprobs", "top_logprobs",
              "max_tokens", "n", "presence_penalty", "seed", "stop", "stream",
              "stream_options", "temperature", "top_p", "tools", "tool_choice",
              "user", "function_call", "functions", "max_retries", "extra_headers">>
        model_specific_params ==
            IF m # "gpt-3.5-turbo-16k" /\ m # "gpt-4"
            THEN <<"response_format">>
            ELSE << >>
    IN  base_params \o model_specific_params

\* the loop body of OpenAIConfig.map_openai_params without the allow-list test
OpenAIConfig_map_step_unfiltered(param, value, optional, supported) ==
    Put(optional, param, value)

\* lines 372-373: the loop body of OpenAIConfig.map_openai_params
OpenAIConfig_map_step(param, value, optional, supported) ==
    IF param \in Range(supported) THEN Put(optional, param, value) ELSE optional

\* lines 371-373: the loop over non_default_params.items()
RECURSIVE OpenAIConfig_map_loop(_, _, _, _)
OpenAIConfig_map_loop(params, nondefault, optional, supported) ==
    IF params = << >>
    THEN optional
    ELSE OpenAIConfig_map_loop(
             Tail(params), nondefault,
             OpenAIConfig_map_step(Head(params), nondefault[Head(params)], optional,
                                   supported),
             supported)

\* lines 367-374
OpenAIConfig_map_openai_params(nondefault, optional, m) ==
    OpenAIConfig_map_loop(InDict(nondefault), nondefault, optional,
                          OpenAIConfig_get_supported_openai_params(m))

\* lines 122-132
MistralConfig_get_supported_openai_params ==
    <<"stream", "temperature", "top_p", "max_tokens", "tools", "tool_choice", "seed",
      "response_format">>

\* _map_tool_choice that hands 'required' through
MistralConfig_map_tool_choice_passthrough(tool_choice) ==
    IF tool_choice = "auto" \/ tool_choice = "none" \/ tool_choice = "required"
    THEN tool_choice
    ELSE "any"

\* lines 134-140
MistralConfig_map_tool_choice(tool_choice) ==
    IF tool_choice = "auto" \/ tool_choice = "none"
    THEN tool_choice
    ELSE IF tool_choice = "required"
    THEN "any"
    ELSE "any"

\* a loop body that forwards every supported parameter under its own name
MistralConfig_map_step_forward(param, value, optional) ==
    IF param \in Range(MistralConfig_get_supported_openai_params)
    THEN Put(optional, param, value)
    ELSE optional

\* lines 144-161: the loop body of MistralConfig.map_openai_params, one `if`
\* after the other
MistralConfig_map_step(param, value, optional) ==
    LET o1 == IF param = "max_tokens" THEN Put(optional, "max_tokens", value) ELSE optional
        o2 == IF param = "tools" THEN Put(o1, "tools", value) ELSE o1
        o3 == IF param = "stream" /\ EqualsTrue(value) THEN Put(o2, "stream", value) ELSE o2
        o4 == IF param = "temperature" THEN Put(o3, "temperature", value) ELSE o3
        o5 == IF param = "top_p" THEN Put(o4, "top_p", value) ELSE o4
        o6 == IF param = "tool_choice" /\ IsStr(value)
              THEN Put(o5, "tool_choice", MistralConfig_map_tool_choice(value))
              ELSE o5
        o7 == IF param = "seed"
              THEN Put(o6, "extra_body", DictOf("random_seed", value))
              ELSE o6
        o8 == IF param = "response_format" THEN Put(o7, "response_format", value) ELSE o7
    IN  o8

\* lines 143-161: the loop over non_default_params.items()
RECURSIVE MistralConfig_map_loop(_, _, _)
MistralConfig_map_loop(params, nondefault, optional) ==
    IF params = << >>
    THEN optional
    ELSE MistralConfig_map_loop(
             Tail(params), nondefault,
             MistralConfig_map_step(Head(params), nondefault[Head(params)], optional))

\* lines 142-162
MistralConfig_map_openai_params(nondefault, optional) ==
    MistralConfig_map_loop(InDict(nondefault), nondefault, optional)

\* lines 225-241
DeepInfraConfig_get_supported_openai_params ==
    <<"stream", "frequency_penalty", "function_call", "functions", "logit_bias",
      "max_tokens", "n", "presence_penalty", "stop", "temperature", "top_p",
      "response_format", "tools", "tool_choice">>

\* a loop body that substitutes the temperature for no model
DeepInfraConfig_map_step_plain(param, value, optional, m, supported) ==
    IF param \in Range(supported) THEN Put(optional, param, value) ELSE optional

\* lines 248-255: the loop body of DeepInfraConfig.map_openai_params
DeepInfraConfig_map_step(param, value, optional, m, supported) ==
    LET v == IF param = "temperature" /\ EqualsZero(value)
                  /\ m = "mistralai/Mistral-7B-Instruct-v0.1"
             THEN "0.0001"
             ELSE value
    IN  IF param \in Range(supported) THEN Put(optional, param, v) ELSE optional

\* lines 247-255: the loop over non_default_params.items()
RECURSIVE DeepInfraConfig_map_loop(_, _, _, _, _)
DeepInfraConfig_map_loop(params, nondefault, optional, m, supported) ==
    IF params = << >>
    THEN optional
    ELSE DeepInfraConfig_map_loop(
             Tail(params), nondefault,
             DeepInfraConfig_map_step(Head(params), nondefault[Head(params)], optional,
                                      m, supported),
             m, supported)

\* lines 243-256
DeepInfraConfig_map_openai_params(nondefault, optional, m) ==
    DeepInfraConfig_map_loop(InDict(nondefault), nondefault, optional, m,
                             DeepInfraConfig_get_supported_openai_params)

\* the dicts with some of the keys of `choices`, each with one of its values
Dicts(choices) ==
    UNION {{f \in [ks -> UNION {choices[k] : k \in ks}] : \A k \in ks : f[k] \in choices[k]} :
              ks \in SUBSET DOMAIN choices}

ToolChoiceObject == "{type: function, function: {name: f}}"

InputNonDefaultParams ==
    Dicts([temperature |-> {"0", "0.7"},
           tool_choice |-> {"auto", "none", "required", "foo", ToolChoiceObject},
           seed |-> {"42"},
           response_format |-> {"{type: json_object}"},
           stream |-> {"True", "False"},
           top_k |-> {"40"}])

InputMapOptionalParams ==
    Dicts([temperature |-> {"1.0"},
           tool_choice |-> {"none", ToolChoiceObject},
           extra_body |-> {"{a: 1}"},
           response_format |-> {"{type: text}"},
           top_k |-> {"5"}])

InputModels ==
    {"gpt-4", "gpt-3.5-turbo-16k", "gpt-4o", "mistralai/Mistral-7B-Instruct-v0.1"}

InitMap ==
    /\ map_model \in InputModels
    /\ non_default_params \in InputNonDefaultParams
    /\ map_optional_params \in InputMapOptionalParams
    /\ map_optional_params_in = map_optional_params
    /\ map_returned = EmptyDict
    /\ map_called = None

\* no call of map_openai_params is under way
IdleMap ==
    /\ map_model = None
    /\ non_default_params = EmptyDict
    /\ map_optional_params = EmptyDict
    /\ map_optional_params_in = EmptyDict
    /\ map_returned = EmptyDict
    /\ map_called = "idle"

\* OpenAIConfig().map_openai_params(non_default_params, optional_params, model):
\* optional_params is updated in place and returned
MapOpenAI ==
    /\ map_called = None
    /\ map_optional_params' =
          OpenAIConfig_map_openai_params(non_default_params, map_optional_params, map_model)
    /\ map_returned' = map_optional_params'
    /\ map_called' = "OpenAIConfig"
    /\ UNCHANGED <<map_model, non_default_params, map_optional_params_in>>
    /\ UNCHANGED vars_not_map

\* MistralConfig().map_openai_params(non_default_params, optional_params)
MapMistral ==
    /\ map_called = None
    /\ map_optional_params' =
          MistralConfig_map_openai_params(non_default_params, map_optional_params)
    /\ map_returned' = map_optional_params'
    /\ map_called' = "MistralConfig"
    /\ UNCHANGED <<map_model, non_default_params, map_optional_params_in>>
    /\ UNCHANGED vars_not_map

\* DeepInfraConfig().map_openai_params(non_default_params, optional_params, model)
MapDeepInfra ==
    /\ map_called = None
    /\ map_optional_params' =
          DeepInfraConfig_map_openai_params(non_default_params, map_optional_params,
                                            map_model)
    /\ map_returned' = map_optional_params'
    /\ map_called' = "DeepInfraConfig"
    /\ UNCHANGED <<map_model, non_default_params, map_optional_params_in>>
    /\ UNCHANGED vars_not_map

NextMap == MapOpenAI \/ MapMistral \/ MapDeepInfra

\* the keys of non_default_params that OpenAIConfig supports for the model
SupportedGiven ==
    DOMAIN non_default_params
        \cap Range(OpenAIConfig_get_supported_openai_params(map_model))

\* C8: OpenAIConfig.map_openai_params returns optional_params overridden by
\* exactly the entries of non_default_params whose key is supported for the
\* model: no unsupported key is added and every other entry of optional_params
\* keeps its value.
C8_OpenAIMapIsAllowList ==
    map_called = "OpenAIConfig" =>
        /\ DOMAIN map_returned = DOMAIN map_optional_params_in \cup SupportedGiven
        /\ \A k \in SupportedGiven : map_returned[k] = non_default_params[k]
        /\ \A k \in DOMAIN map_optional_params_in \ SupportedGiven :
              map_returned[k] = map_optional_params_in[k]
        /\ \A k \in DOMAIN non_default_params \ SupportedGiven :
              SameEntry(map_optional_params_in, map_returned, k)

\* C8 witness: a call that was given a supported key overriding an entry of
\* optional_params, and an unsupported key that optional_params has not
C8_Witness ==
    /\ map_called = "OpenAIConfig"
    /\ "temperature" \in DOMAIN non_default_params
    /\ "temperature" \in DOMAIN map_optional_params_in
    /\ map_returned["temperature"] # map_optional_params_in["temperature"]
    /\ "top_k" \in DOMAIN non_default_params
    /\ "top_k" \notin DOMAIN map_returned

-----------------------------------------------------------------------------
(* OpenAITextCompletionConfig.convert_to_chat_model_response_object *)

\* An optional argument: None, or an object with its content.
NoneObject == [is_none |-> TRUE, dict |-> EmptyDict]

Some(d) == [is_none |-> FALSE, dict |-> d]

\* litellm.utils.Message(content=..., role=...)
Message(content, role) == [content |-> content, role |-> role]

\* litellm.utils.Choices(finish_reason=..., index=..., message=...)
Choices(finish_reason, index, message) ==
    [finish_reason |-> finish_reason, index |-> index, message |-> message]

\* ConvertChoices with index left at 0
RECURSIVE ConvertChoicesIndexZero(_, _)
ConvertChoicesIndexZero(choices, idx) ==
    IF idx >= Len(choices)
    THEN << >>
    ELSE <<Choices(choices[idx + 1]["finish_reason"], 0,
                   Message(choices[idx + 1]["text"], "assistant"))>>
         \o ConvertChoicesIndexZero(choices, idx + 1)

\* lines 468-477: choice_list, built by the loop over
\* enumerate(response_object["choices"]) from idx on
RECURSIVE ConvertChoices(_, _)
ConvertChoices(choices, idx) ==
    IF idx >= Len(choices)
    THEN << >>
    ELSE <<Choices(choices[idx + 1]["finish_reason"], idx,
                   Message(choices[idx + 1]["text"], "assistant"))>>
         \o ConvertChoices(choices, idx + 1)

\* lines 478-491: the assignments to model_response_object
ConvertAssign(resp, obj) ==
    LET o1 == [obj EXCEPT !.choices = ConvertChoices(resp["choices"], 0)]
        o2 == IF "usage" \in DOMAIN resp THEN [o1 EXCEPT !.usage = resp["usage"]] ELSE o1
        o3 == IF "id" \in DOMAIN resp THEN [o2 EXCEPT !.id = resp["id"]] ELSE o2
        o4 == IF "model" \in DOMAIN resp THEN [o3 EXCEPT !.model = resp["model"]] ELSE o3
    IN  [o4 EXCEPT !.hidden_params = Put(@, "original_response", resp)]

ValueError ==
    [type |-> "ValueError", has_status |-> FALSE, status_code |-> 0,
     str |-> {"Error in response object format"}]

KeyError ==
    [type |-> "KeyError", has_status |-> FALSE, status_code |-> 0, str |-> {"choices"}]

\* a ModelResponse as the caller built it
PriorModelResponse ==
    [is_none |-> FALSE,
     choices |-> <<Choices("stop", 0, Message(None, "assistant"))>>,
     usage |-> "Usage(0, 0, 0)",
     id |-> "chatcmpl-prior",
     model |-> None,
     hidden_params |-> EmptyDict]

NoModelResponse == [PriorModelResponse EXCEPT !.is_none = TRUE]

InputChoices ==
    UNION {[1..n -> [text : {"a", "b"}, finish_reason : {"stop", "length"}]] :
              n \in 0..MaxChoices}

InputResponses ==
    {NoneObject}
    \cup {Some(Merge(c, rest)) :
              c \in {EmptyDict} \cup {[k \in {"choices"} |-> ch] : ch \in InputChoices},
              rest \in Dicts([usage |-> {"Usage(3, 4, 7)"},
                              id |-> {"cmpl-1"},
                              model |-> {"gpt-3.5-turbo-instruct"}])}

InitConvert ==
    /\ response_object \in InputResponses
    /\ model_response_object \in {NoModelResponse, PriorModelResponse}
    /\ model_response_object_in = model_response_object
    /\ convert_outcome = Running

\* no call of convert_to_chat_model_response_object is under way
IdleConvert ==
    /\ response_object = NoneObject
    /\ model_response_object = NoModelResponse
    /\ model_response_object_in = NoModelResponse
    /\ convert_outcome = Return("idle")

\* lines 459-494: model_response_object is updated in place and returned;
\* every exception is raised again as it is
Convert ==
    /\ convert_outcome = Running
    /\ IF response_object.is_none \/ model_response_object.is_none
       THEN /\ convert_outcome' = Raise(ValueError)
            /\ UNCHANGED model_response_object
       ELSE IF "choices" \notin DOMAIN response_object.dict
       THEN /\ convert_outcome' = Raise(KeyError)
            /\ UNCHANGED model_response_object
       ELSE /\ model_response_object' =
                  ConvertAssign(response_object.dict, model_response_object)
            /\ convert_outcome' = Return("model_response_object")
    /\ UNCHANGED <<response_object, model_response_object_in>>
    /\ UNCHANGED vars_not_convert

NextConvert == Convert

\* the field of a model response that takes the response's key k
Field(obj, k) ==
    CASE k = "usage" -> obj.usage
      [] k = "id" -> obj.id
      [] k = "model" -> obj.model

\* C10: the converted response has as many choices as the input, in the same
\* order, the i-th with index i, role 'assistant', the input choice's text as
\* content and its finish_reason; usage, id and model are copied when present
\* and keep their prior value when absent; the original response is recorded
\* in the hidden parameters; a null argument raises ValueError.
C10_ConvertReshapesResponse ==
    convert_outcome # Running =>
        IF response_object.is_none \/ model_response_object_in.is_none
        THEN /\ convert_outcome = Raise(ValueError)
             /\ model_response_object = model_response_object_in
        ELSE "choices" \in DOMAIN response_object.dict =>
             LET given == response_object.dict["choices"]
                 out == model_response_object
             IN  /\ convert_outcome.kind = "return"
                 /\ Len(out.choices) = Len(given)
                 /\ \A i \in 1..Len(given) :
                       /\ out.choices[i].index = i - 1
                       /\ out.choices[i].message.role = "assistant"
                       /\ out.choices[i].message.content = given[i]["text"]
                       /\ out.choices[i].finish_reason = given[i]["finish_reason"]
                 /\ \A k \in {"usage", "id", "model"} :
                       Field(out, k) = IF k \in DOMAIN response_object.dict
                                       THEN response_object.dict[k]
                                       ELSE Field(model_response_object_in, k)
                 /\ out.hidden_params["original_response"] = response_object.dict

\* C10 witness: a response with two different choices and a usage but no id
\* was converted
C10_Witness ==
    /\ convert_outcome.kind = "return"
    /\ convert_outcome.value = "model_response_object"
    /\ Len(model_response_object.choices) = 2
    /\ model_response_object.choices[1].message.content
          # model_response_object.choices[2].message.content
    /\ model_response_object.choices[2].index = 1
    /\ "usage" \in DOMAIN response_object.dict
    /\ "id" \notin DOMAIN response_object.dict
    /\ model_response_object.id = "chatcmpl-prior"

-----------------------------------------------------------------------------
(* OpenAIChatCompletion.embedding, OpenAIChatCompletion.image_generation and *)
(* OpenAITextCompletion.completion, each with its asynchronous counterparts. *)
(* The argument `client` is left at its default None, so every invocation    *)
(* that reaches the vendor constructs its client.                            *)

RequestMethods == {"embedding", "image_generation", "text_completion"}

\* {**optional_params} with optional_params None
TypeError ==
    [type |-> "TypeError", has_status |-> FALSE, status_code |-> 0,
     str |-> {"'NoneType' object is not a mapping"}]

\* a read of the local `data` before its assignment
UnboundLocalError ==
    [type |-> "UnboundLocalError", has_status |-> FALSE, status_code |-> 0,
     str |-> {"local variable 'data' referenced before assignment"}]

\* message["content"] of a message without that key
ContentKeyError ==
    [type |-> "KeyError", has_status |-> FALSE, status_code |-> 0, str |-> {"content"}]

\* The content of a message: a string, or a list of parts.  `str` is the
\* value as one element of a list of contents, `items` its elements when it
\* is a list.
StrContent(s) == [is_list |-> FALSE, str |-> s, items |-> << >>]

ListContent(s, items) == [is_list |-> TRUE, str |-> s, items |-> items]

\* a message of a text completion: with or without the key "content"
TextMessage(has_content, content) == [has_content |-> has_content, content |-> content]

InputTextMessage ==
    {TextMessage(TRUE, StrContent("hi")),
     TextMessage(TRUE, StrContent("there")),
     TextMessage(TRUE, ListContent("['a', 'b']", <<"a", "b">>)),
     TextMessage(FALSE, StrContent(""))}

NoMessages == [is_none |-> TRUE, list |-> << >>]

InputTextMessages ==
    {NoMessages}
    \cup {[is_none |-> FALSE, list |-> l] :
             l \in UNION {[1..n -> InputTextMessage] : n \in 0..MaxLen}}

\* What one vendor call does for these methods: answer, or raise an error
\* with or without a status code and a text.
RequestOutcomes == {NoError} \cup {x \in VendorErrors : x.str \subseteq {AltPhrase1}}

\* lines 1290-1297: the list comprehension reads message["content"] of every
\* message; only the first message is tested for the key
PromptRaises(msgs) ==
    /\ ~(Len(msgs) > 0 /\ msgs[1].has_content /\ msgs[1].content.is_list)
    /\ \E i \in 1..Len(msgs) : ~msgs[i].has_content

\* a prompt that is the content of every message whatever the first one holds
PromptOfEveryMessage(msgs) == [i \in 1..Len(msgs) |-> msgs[i].content.str]

\* lines 1290-1297: the prompt of a text completion
Prompt(msgs) ==
    IF Len(msgs) > 0 /\ msgs[1].has_content /\ msgs[1].content.is_list
    THEN msgs[1].content.items
    ELSE [i \in 1..Len(msgs) |-> msgs[i].content.str]

\* the payload's second key and its value
RqSubjectKey == IF rq_method = "embedding" THEN "input" ELSE "prompt"

RqSubject ==
    IF rq_method = "text_completion" THEN Prompt(rq_messages.list) ELSE rq_input

\* lines 908, 1012, 1301: data = {"model": model, <subject>, **optional_params}
RqBuilt ==
    Merge([k \in {"model", RqSubjectKey} |-> IF k = "model" THEN rq_model ELSE RqSubject],
          rq_optional_params.dict)

\* lines 909, 1013, 1302: max_retries = data.pop("max_retries", 2)
RqMaxRetries == Get(RqBuilt, "max_retries", "2")

\* RqData when max_retries is read from the payload and left in it
RqDataKeepsMaxRetries == RqBuilt

\* lines 909, 1013, 1302: the payload after the pop
RqData == Without(RqBuilt, "max_retries")

\* One recorded call on logging_obj or on the vendor client: its payload
\* (complete_input_dict, the keyword arguments), the error a vendor call
\* raised, and the text passed as original_response.
RqEvent(op, payload, raised, original_response) ==
    [op |-> op, payload |-> payload, raised |-> raised,
     original_response |-> original_response]

\* the keyword arguments of the OpenAI(...) / AsyncOpenAI(...) constructor call
RqClient(cls) ==
    RqEvent(cls,
            [k \in {"max_retries", "timeout"} |->
                IF k = "max_retries" THEN RqMaxRetries ELSE rq_timeout],
            NoError, {})

\* the text of a vendor response
ResponseText == {"<response>"}

RqStream == Truthy(Get(rq_optional_params.dict, "stream", "False"))

InitRequest ==
    /\ rq_method \in RequestMethods
    /\ rq_async \in BOOLEAN
    /\ rq_model \in {None, "gpt-4"}
    /\ rq_timeout = "600.0"
    /\ rq_optional_params \in {NoneObject} \cup {Some(d) : d \in InputOptionalParams}
    /\ IF rq_method = "text_completion"
       THEN rq_input = None /\ rq_messages \in InputTextMessages
       ELSE rq_input = "a cat" /\ rq_messages = NoMessages
    /\ rq_log = << >>
    /\ rq_pc = "start"
    /\ rq_outcome = Running
    /\ rq_awaited = Running

\* none of these methods is under way
IdleRequest ==
    /\ rq_method = "idle"
    /\ rq_async = FALSE
    /\ rq_model = None
    /\ rq_input = None
    /\ rq_messages = NoMessages
    /\ rq_timeout = None
    /\ rq_optional_params = NoneObject
    /\ rq_log = << >>
    /\ rq_pc = "idle"
    /\ rq_outcome = Running
    /\ rq_awaited = Running

\* a last handler that gives every error the status 500
RequestErrorAlways500(exc) == OpenAIError(500, exc.str)

\* lines 947-951, 1075-1078: what the last handler raises for exc
RequestError(exc) ==
    IF exc.has_status
    THEN OpenAIError(exc.status_code, exc.str)
    ELSE OpenAIError(500, exc.str)

\* lines 904-951: OpenAIChatCompletion.embedding
Embedding ==
    /\ rq_pc = "start"
    /\ rq_method = "embedding"
    /\ IF rq_optional_params.is_none
       THEN \* line 908 raises TypeError; the last handler wraps it
            /\ rq_outcome' = Raise(RequestError(TypeError))
            /\ rq_pc' = "done"
            /\ UNCHANGED rq_log
       ELSE IF ~IsInt(RqMaxRetries)
       THEN /\ rq_outcome' = Raise(OpenAIError(422, {"max retries must be an int"}))
            /\ rq_pc' = "done"
            /\ UNCHANGED rq_log
       ELSE IF rq_async
       THEN /\ rq_log' = <<RqEvent("pre_call", RqData, NoError, {})>>
            /\ rq_outcome' = Return("coroutine aembedding")
            /\ rq_pc' = "aembedding"
       ELSE \E r \in RequestOutcomes :
               /\ rq_log' = <<RqEvent("pre_call", RqData, NoError, {}),
                              RqClient("OpenAI"),
                              RqEvent("embeddings.create", RqData, r, {})>>
                            \o (IF r = NoError
                                THEN <<RqEvent("post_call", RqData, NoError, ResponseText)>>
                                ELSE << >>)
               /\ rq_outcome' = IF r = NoError
                                THEN Return("EmbeddingResponse")
                                ELSE Raise(RequestError(r))
               /\ rq_pc' = "done"
    /\ UNCHANGED <<rq_method, rq_async, rq_model, rq_input, rq_messages, rq_timeout,
                   rq_optional_params, rq_awaited>>
    /\ UNCHANGED vars_not_request

\* lines 860-889: OpenAIChatCompletion.aembedding, awaited by the caller
Aembedding ==
    /\ rq_pc = "aembedding"
    /\ \E r \in RequestOutcomes :
          /\ rq_log' = rq_log
                       \o <<RqClient("AsyncOpenAI"),
                            RqEvent("embeddings.create", RqData, r, {}),
                            IF r = NoError
                            THEN RqEvent("post_call", RqData, NoError, ResponseText)
                            ELSE RqEvent("post_call", EmptyDict, NoError, r.str)>>
          /\ rq_awaited' = IF r = NoError THEN Return("EmbeddingResponse") ELSE Raise(r)
    /\ rq_pc' = "done"
    /\ UNCHANGED <<rq_method, rq_async, rq_model, rq_input, rq_messages, rq_timeout,
                   rq_optional_params, rq_outcome>>
    /\ UNCHANGED vars_not_request

\* lines 1009-1078: OpenAIChatCompletion.image_generation
ImageGeneration ==
    /\ rq_pc = "start"
    /\ rq_method = "image_generation"
    /\ IF rq_optional_params.is_none
       THEN \* line 1012 raises TypeError; the handler at lines 1067-1074 reads
            \* `data`, which was never assigned
            /\ rq_outcome' = Raise(UnboundLocalError)
            /\ rq_pc' = "done"
            /\ UNCHANGED rq_log
       ELSE IF ~IsInt(RqMaxRetries)
       THEN /\ rq_log' = <<RqEvent("post_call", RqData, NoError,
                                   {"max retries must be an int"})>>
            /\ rq_outcome' = Raise(OpenAIError(422, {"max retries must be an int"}))
            /\ rq_pc' = "done"
       ELSE IF rq_async
       THEN /\ rq_outcome' = Return("coroutine aimage_generation")
            /\ rq_pc' = "aimage_generation"
            /\ UNCHANGED rq_log
       ELSE \E r \in RequestOutcomes :
               /\ rq_log' = <<RqClient("OpenAI"),
                              RqEvent("pre_call", RqData, NoError, {}),
                              RqEvent("images.generate", RqData, r, {}),
                              RqEvent("post_call", RqData, NoError,
                                      IF r = NoError THEN ResponseText ELSE r.str)>>
               /\ rq_outcome' = IF r = NoError
                                THEN Return("ImageResponse")
                                ELSE Raise(RequestError(r))
               /\ rq_pc' = "done"
    /\ UNCHANGED <<rq_method, rq_async, rq_model, rq_input, rq_messages, rq_timeout,
                   rq_optional_params, rq_awaited>>
    /\ UNCHANGED vars_not_request

\* lines 965-994: OpenAIChatCompletion.aimage_generation, awaited by the caller
AimageGeneration ==
    /\ rq_pc = "aimage_generation"
    /\ \E r \in RequestOutcomes :
          /\ rq_log' = rq_log
                       \o <<RqClient("AsyncOpenAI"),
                            RqEvent("images.generate", RqData, r, {}),
                            IF r = NoError
                            THEN RqEvent("post_call", RqData, NoError, ResponseText)
                            ELSE RqEvent("post_call", EmptyDict, NoError, r.str)>>
          /\ rq_awaited' = IF r = NoError THEN Return("ImageResponse") ELSE Raise(r)
    /\ rq_pc' = "done"
    /\ UNCHANGED <<rq_method, rq_async, rq_model, rq_input, rq_messages, rq_timeout,
                   rq_optional_params, rq_outcome>>
    /\ UNCHANGED vars_not_request

\* lines 1282-1374: OpenAITextCompletion.completion; its handler re-raises
TextCompletion ==
    /\ rq_pc = "start"
    /\ rq_method = "text_completion"
    /\ IF rq_model = None \/ rq_messages.is_none
       THEN /\ rq_outcome' = Raise(OpenAIError(422, {"Missing model or messages"}))
            /\ rq_pc' = "done"
            /\ UNCHANGED rq_log
       ELSE IF PromptRaises(rq_messages.list)
       THEN /\ rq_outcome' = Raise(ContentKeyError)
            /\ rq_pc' = "done"
            /\ UNCHANGED rq_log
       ELSE IF rq_optional_params.is_none
       THEN /\ rq_outcome' = Raise(TypeError)
            /\ rq_pc' = "done"
            /\ UNCHANGED rq_log
       ELSE IF rq_async /\ RqStream
       THEN /\ rq_log' = <<RqEvent("pre_call", RqData, NoError, {})>>
            /\ rq_outcome' = Return("async generator async_streaming")
            /\ rq_pc' = "text_async_streaming"
       ELSE IF rq_async
       THEN /\ rq_log' = <<RqEvent("pre_call", RqData, NoError, {})>>
            /\ rq_outcome' = Return("coroutine acompletion")
            /\ rq_pc' = "text_acompletion"
       ELSE IF RqStream
       THEN /\ rq_log' = <<RqEvent("pre_call", RqData, NoError, {})>>
            /\ rq_outcome' = Return("generator streaming")
            /\ rq_pc' = "text_streaming"
       ELSE \E r \in RequestOutcomes :
               /\ rq_log' = <<RqEvent("pre_call", RqData, NoError, {}),
                              RqClient("OpenAI"),
                              RqEvent("completions.create", RqData, r, {})>>
                            \o (IF r = NoError
                                THEN <<RqEvent("post_call", EmptyDict, NoError, ResponseText)>>
                                ELSE << >>)
               /\ rq_outcome' = IF r = NoError
                                THEN Return("TextCompletionResponse")
                                ELSE Raise(r)
               /\ rq_pc' = "done"
    /\ UNCHANGED <<rq_method, rq_async, rq_model, rq_input, rq_messages, rq_timeout,
                   rq_optional_params, rq_awaited>>
    /\ UNCHANGED vars_not_request

\* lines 1391-1421: OpenAITextCompletion.acompletion, awaited by the caller
TextAcompletion ==
    /\ rq_pc = "text_acompletion"
    /\ \E r \in RequestOutcomes :
          /\ rq_log' = rq_log
                       \o <<RqClient("AsyncOpenAI"),
                            RqEvent("completions.create", RqData, r, {})>>
                       \o (IF r = NoError
                           THEN <<RqEvent("post_call", EmptyDict, NoError, ResponseText)>>
                           ELSE << >>)
          /\ rq_awaited' = IF r = NoError
                           THEN Return("TextCompletionResponse")
                           ELSE Raise(r)
    /\ rq_pc' = "done"
    /\ UNCHANGED <<rq_method, rq_async, rq_model, rq_input, rq_messages, rq_timeout,
                   rq_optional_params, rq_outcome>>
    /\ UNCHANGED vars_not_request

\* lines 1437-1458: OpenAITextCompletion.streaming, a generator: its body
\* runs when the caller iterates
TextStreaming ==
    /\ rq_pc = "text_streaming"
    /\ \E r \in RequestOutcomes :
          /\ rq_log' = rq_log
                       \o <<RqClient("OpenAI"),
                            RqEvent("completions.create", RqData, r, {})>>
          /\ rq_awaited' = IF r = NoError THEN Return("chunks") ELSE Raise(r)
    /\ rq_pc' = "done"
    /\ UNCHANGED <<rq_method, rq_async, rq_model, rq_input, rq_messages, rq_timeout,
                   rq_optional_params, rq_outcome>>
    /\ UNCHANGED vars_not_request

\* lines 1474-1497: OpenAITextCompletion.async_streaming, an asynchronous
\* generator: its body runs when the caller iterates
TextAsyncStreaming ==
    /\ rq_pc = "text_async_streaming"
    /\ \E r \in RequestOutcomes :
          /\ rq_log' = rq_log
                       \o <<RqClient("AsyncOpenAI"),
                            RqEvent("completions.create", RqData, r, {})>>
          /\ rq_awaited' = IF r = NoError THEN Return("chunks") ELSE Raise(r)
    /\ rq_pc' = "done"
    /\ UNCHANGED <<rq_method, rq_async, rq_model, rq_input, rq_messages, rq_timeout,
                   rq_optional_params, rq_outcome>>
    /\ UNCHANGED vars_not_request

NextRequest ==
    \/ Embedding
    \/ Aembedding
    \/ ImageGeneration
    \/ AimageGeneration
    \/ TextCompletion
    \/ TextAcompletion
    \/ TextStreaming
    \/ TextAsyncStreaming

-----------------------------------------------------------------------------
(* get_openai_client of OpenAIFilesAPI, OpenAIBatchesAPI, OpenAIAssistantsAPI *)

ClientClasses == {"OpenAIFilesAPI", "OpenAIBatchesAPI", "OpenAIAssistantsAPI"}

ClientArgNames == {"api_key", "api_base", "timeout", "max_retries", "organization"}

\* the keys of locals() at the first statement, in the order of the parameters
ReceivedArgsOrder ==
    <<"self", "api_key", "api_base", "timeout", "max_retries", "organization", "client">>

\* received_args = locals()
ReceivedArgs(args, client) ==
    [k \in Range(ReceivedArgsOrder) |->
        IF k = "self" THEN "self" ELSE IF k = "client" THEN client ELSE args[k]]

\* ClientDataStep that keeps the name api_base
ClientDataStepKeepsApiBase(d, k, v) ==
    IF k = "self" \/ k = "client"
    THEN d
    ELSE IF v # None
    THEN Put(d, k, v)
    ELSE d

\* lines 1527-1532: the body of `for k, v in received_args.items()`
ClientDataStep(d, k, v) ==
    IF k = "self" \/ k = "client"
    THEN d
    ELSE IF k = "api_base" /\ v # None
    THEN Put(d, "base_url", v)
    ELSE IF v # None
    THEN Put(d, k, v)
    ELSE d

\* lines 1525-1532: data after the loop over the keys from index i on
RECURSIVE ClientDataLoop(_, _, _)
ClientDataLoop(d, received, i) ==
    IF i > Len(ReceivedArgsOrder)
    THEN d
    ELSE ClientDataLoop(ClientDataStep(d, ReceivedArgsOrder[i], received[ReceivedArgsOrder[i]]),
                        received, i + 1)

\* the object that OpenAI(**data) returns
NewClient == "OpenAI(**data)"

CallerClient == "the caller's client"

InputClientArgs ==
    {[k \in ClientArgNames |->
         CASE k = "api_key" -> a
           [] k = "api_base" -> b
           [] k = "timeout" -> t
           [] k = "max_retries" -> m
           [] k = "organization" -> o] :
        a \in {None, "sk-1"}, b \in {None, "https://example.test/v1"},
        t \in {None, "600.0"}, m \in {None, "2"}, o \in {None, "org-1"}}

InitClient ==
    /\ gc_class \in ClientClasses
    /\ gc_args \in InputClientArgs
    /\ gc_client \in {None, CallerClient}
    /\ gc_constructed = << >>
    /\ gc_returned = None

\* no call of get_openai_client is under way
IdleClient ==
    /\ gc_class = "idle"
    /\ gc_args = [k \in ClientArgNames |-> None]
    /\ gc_client = None
    /\ gc_constructed = << >>
    /\ gc_returned = "idle"

\* the body shared by the three methods
GetOpenAIClient ==
    /\ gc_returned = None
    /\ IF gc_client = None
       THEN /\ gc_constructed' =
                  Append(gc_constructed,
                         ClientDataLoop(EmptyDict, ReceivedArgs(gc_args, gc_client), 1))
            /\ gc_returned' = NewClient
       ELSE /\ gc_returned' = gc_client
            /\ UNCHANGED gc_constructed
    /\ UNCHANGED <<gc_class, gc_args, gc_client>>
    /\ UNCHANGED vars_not_client

\* lines 1514-1537: OpenAIFilesAPI.get_openai_client
FilesGetOpenAIClient == gc_class = "OpenAIFilesAPI" /\ GetOpenAIClient

\* lines 1573-1596: OpenAIBatchesAPI.get_openai_client
BatchesGetOpenAIClient == gc_class = "OpenAIBatchesAPI" /\ GetOpenAIClient

\* lines 1687-1710: OpenAIAssistantsAPI.get_openai_client
AssistantsGetOpenAIClient == gc_class = "OpenAIAssistantsAPI" /\ GetOpenAIClient

NextClient ==
    \/ FilesGetOpenAIClient
    \/ BatchesGetOpenAIClient
    \/ AssistantsGetOpenAIClient

-----------------------------------------------------------------------------
(* Properties of the request payloads *)

IsVendorCall(ev) ==
    ev.op \in {"create", "embeddings.create", "images.generate", "completions.create"}

IsClient(ev) == ev.op \in {"OpenAI", "AsyncOpenAI"}

\* in the call sequence l of an invocation given the mapping params: no
\* payload holds max_retries, every client is constructed with the value of
\* params (2 when absent), and every vendor call is made on a client
\* constructed for it
MaxRetriesOnlyToClient(l, params) ==
    \A i \in 1..Len(l) :
        /\ ~IsClient(l[i]) => "max_retries" \notin DOMAIN l[i].payload
        /\ IsClient(l[i]) => l[i].payload["max_retries"] = Get(params, "max_retries", "2")
        /\ IsVendorCall(l[i]) =>
              \E j \in 1..(i - 1) :
                  /\ IsClient(l[j])
                  /\ \A k \in (j + 1)..(i - 1) : ~IsVendorCall(l[k])

\* C11: in completion, embedding, image_generation and the text completion
\* the payload passed to the vendor call (and logged) never contains the key
\* max_retries; the value of optional_params (2 when absent) goes to the client
\* constructor only, for the first attempt and for the retry alike.
C11_MaxRetriesOnlyToClient ==
    /\ MaxRetriesOnlyToClient(log, optional_params)
    /\ MaxRetriesOnlyToClient(rq_log, rq_optional_params.dict)

\* C11 witness: completion was given max_retries and made its retry, each of
\* the two vendor calls on a client constructed with that value
C11_Witness ==
    /\ "max_retries" \in DOMAIN optional_params
    /\ Len(Creates) = 2
    /\ Len(SelectSeq(log, IsClient)) = 2

\* the inputs that completion rejects: a null model, null messages, or a
\* timeout that is neither a float nor an httpx.Timeout
InvalidInput ==
    \/ model = None
    \/ messages = None
    \/ timeout \notin {"600.0", "httpx.Timeout(5.0)"}

\* C12: when model is null, messages is null, or timeout is neither a float
\* nor an httpx.Timeout (an integer included), completion raises OpenAIError
\* with status 422, and in that invocation no client is constructed, no vendor
\* call is made and neither pre_call nor post_call is logged.
C12_InvalidInputRejectedBeforeAnyCall ==
    (InvalidInput /\ pc # "idle") =>
        /\ log = << >>
        /\ pc \in {"start", "except_outer", "done"}
        /\ pc = "done" =>
              /\ outcome.kind = "raise"
              /\ outcome.error.type = "OpenAIError"
              /\ outcome.error.status_code = 422

\* C12 witness: an invocation with an integer timeout, and nothing else wrong,
\* that ended
C12_Witness ==
    /\ timeout = "600"
    /\ model # None
    /\ messages # None
    /\ pc = "done"
    /\ outcome.kind = "raise"

-----------------------------------------------------------------------------
(* Properties of get_openai_client *)

\* the keyword arguments that the claim expects the constructor to receive
ExpectedClientKeys ==
    {k \in {"api_key", "timeout", "max_retries", "organization"} : gc_args[k] # None}
    \cup (IF gc_args["api_base"] # None THEN {"base_url"} ELSE {})

\* C13: get_openai_client of the files, batches and assistants classes returns
\* the given client itself when client is not null and constructs nothing;
\* when client is null it constructs one client from exactly the non-null
\* arguments among api_key, timeout, max_retries and organization, a non-null
\* api_base being passed as base_url and never as api_base.
C13_GetOpenAIClient ==
    (gc_class \in ClientClasses /\ gc_returned # None) =>
        IF gc_client # None
        THEN gc_returned = gc_client /\ gc_constructed = << >>
        ELSE /\ gc_returned = NewClient
             /\ Len(gc_constructed) = 1
             /\ DOMAIN gc_constructed[1] = ExpectedClientKeys
             /\ \A k \in ExpectedClientKeys :
                   gc_constructed[1][k] =
                       IF k = "base_url" THEN gc_args["api_base"] ELSE gc_args[k]

\* C13 witness: a call without a client, with an api_base and without an
\* organization, that has returned
C13_Witness ==
    /\ gc_class = "OpenAIBatchesAPI"
    /\ gc_client = None
    /\ gc_returned = NewClient
    /\ gc_args["api_base"] # None
    /\ gc_args["organization"] = None
    /\ gc_args["api_key"] # None

-----------------------------------------------------------------------------
(* Properties of the alternating-roles rewrite, stated on the list sent by *)
(* the first attempt and the list sent by the retry that follows it        *)

NoAdjacentEqualRoles(msgs) ==
    \A i \in 1..(Len(msgs) - 1) : msgs[i].role # msgs[i + 1].role

\* the indices i at which msgs[i] and msgs[i + 1] have the same role
EqualPairs(msgs) == {i \in 1..(Len(msgs) - 1) : msgs[i].role = msgs[i + 1].role}

\* where the i-th original message is expected in the rewritten list: after
\* one placeholder for every equal pair before it
Pos(msgs, i) == i + Cardinality({j \in EqualPairs(msgs) : j < i})

\* C14: for every non-empty message list, whatever its roles, the rewritten
\* list has no two adjacent messages of the same role; between two consecutive
\* messages of equal role exactly one placeholder stands, of role 'assistant'
\* when the repeated role is 'user' and of role 'user' otherwise, and between
\* two messages of different roles nothing is inserted.
C14_NoAdjacentEqualRoles ==
    RetriedAfterReformat =>
        LET in == Creates[1].input
            out == Creates[2].input
        IN  /\ Len(in) > 0
            /\ NoAdjacentEqualRoles(out)
            /\ Len(out) >= Pos(in, Len(in))
            /\ \A i \in 1..(Len(in) - 1) :
                  IF in[i].role = in[i + 1].role
                  THEN /\ out[Pos(in, i) + 1].role
                             = (IF in[i].role = "user" THEN "assistant" ELSE "user")
                       /\ out[Pos(in, i) + 2] = in[i + 1]
                  ELSE out[Pos(in, i) + 1] = in[i + 1]

\* C14 witness: the retry after the rewrite of three messages of one role
\* other than user and assistant
C14_Witness ==
    /\ RetriedAfterReformat
    /\ Len(Creates[1].input) = 3
    /\ \A i \in 1..3 : Creates[1].input[i].role = "system"
    /\ Len(Creates[2].input) = 5

\* C15: the rewrite only inserts: the original messages stand in the rewritten
\* list unchanged and in order, every other message of it has empty content,
\* its length is the original length plus the number of adjacent equal-role
\* pairs, a list without such a pair (one message included) is rewritten to an
\* equal list, and rewriting the rewritten list changes nothing.
C15_RewriteOnlyInserts ==
    RetriedAfterReformat =>
        LET in == Creates[1].input
            out == Creates[2].input
            kept == {Pos(in, i) : i \in 1..Len(in)}
        IN  /\ Len(out) = Len(in) + Cardinality(EqualPairs(in))
            /\ \A i \in 1..Len(in) : out[Pos(in, i)] = in[i]
            /\ \A p \in (1..Len(out)) \ kept : out[p].content = ""
            /\ EqualPairs(in) = {} => out = in
            /\ Reformat(out) = out

\* C15 witness: the retry after the rewrite of a list with one equal pair and
\* one unequal pair
C15_Witness ==
    /\ RetriedAfterReformat
    /\ Len(Creates[1].input) = 3
    /\ EqualPairs(Creates[1].input) = {2}
    /\ Len(Creates[2].input) = 4
    /\ Creates[2].input[3].content = ""

-----------------------------------------------------------------------------
(* Properties of the retry of OpenAIChatCompletion.completion *)

\* the client constructor calls made so far, in order
Clients == SelectSeq(log, IsClient)

\* the list that the handler leaves in `messages` after the error exc of an
\* attempt made with the list msgs
Rewritten(msgs, exc) ==
    IF AltPhrase1 \in exc.str \/ AltPhrase2 \in exc.str
    THEN Reformat(msgs)
    ELSE Append(msgs, Placeholder("user"))

\* C16: when completion retries after a role-ordering error, the payload of
\* the second attempt carries the rewritten message list and is otherwise the
\* first attempt's payload: same keys, same model and optional parameters, the
\* same timeout and max_retries for the client, and the same path (in-line
\* synchronous call, or synchronous stream).
C16_RetryPayloadDiffersOnlyInMessages ==
    Len(Creates) = 2 =>
        /\ Creates[2].input = Rewritten(Creates[1].input, Creates[1].raised)
        /\ DOMAIN Creates[2].payload = DOMAIN Creates[1].payload
        /\ \A k \in DOMAIN Creates[1].payload \ {"messages"} :
              Creates[2].payload[k] = Creates[1].payload[k]
        /\ Creates[2].payload["model"] = model
        /\ Len(Clients) = 2
        /\ Clients[2].payload = Clients[1].payload
        /\ Clients[2].payload["timeout"] = timeout
        /\ Creates[2].at = Creates[1].at
        /\ Creates[1].at \in {"create", "streaming_create"}

\* C16 witness: a retry on the synchronous stream path, with headers and
\* max_retries given
C16_Witness ==
    /\ Len(Creates) = 2
    /\ Creates[2].at = "streaming_create"
    /\ "extra_headers" \in DOMAIN Creates[2].payload
    /\ Clients[2].payload["max_retries"] = "5"
    /\ Creates[2].input # Creates[1].input

\* the first vendor call was made by completion itself (in line, or through
\* self.streaming) and failed with a text holding the closing-user phrase
FirstFailedWithLastPhrase ==
    /\ Len(Creates) >= 1
    /\ Creates[1].at \in {"create", "streaming_create"}
    /\ LastPhrase \in Creates[1].raised.str

HasAltPhrase(exc) == AltPhrase1 \in exc.str \/ AltPhrase2 \in exc.str

\* C17: after a first failure whose text holds 'Last message must have role
\* user' and no roles-must-alternate phrase, the retry is made with the
\* original messages followed by exactly one message of role 'user' and empty
\* content; when the text also holds a roles-must-alternate phrase the retry is
\* made with the alternation rewrite of the original messages, to which
\* nothing is appended.
C17_LastMessageRetry ==
    FirstFailedWithLastPhrase =>
        LET in == Creates[1].input
            alt == HasAltPhrase(Creates[1].raised)
        IN  /\ (pc = "done" /\ (~alt \/ Len(in) > 0)) => Len(Creates) = 2
            /\ (Len(Creates) = 2 /\ ~alt) =>
                  /\ Len(Creates[2].input) = Len(in) + 1
                  /\ SubSeq(Creates[2].input, 1, Len(in)) = in
                  /\ Creates[2].input[Len(in) + 1] = [role |-> "user", content |-> ""]
            /\ (Len(Creates) = 2 /\ alt) =>
                  /\ Creates[2].input = Reformat(in)
                  /\ Creates[2].input[Len(Creates[2].input)] = in[Len(in)]

\* C17 witness: the retry after the closing-user phrase alone, made with a
\* list that ended with an assistant message
C17_Witness ==
    /\ FirstFailedWithLastPhrase
    /\ ~HasAltPhrase(Creates[1].raised)
    /\ Len(Creates) = 2
    /\ Len(Creates[1].input) = 2
    /\ Creates[1].input[2].role = "assistant"
    /\ Creates[2].input[3].role = "user"

-----------------------------------------------------------------------------
(* Frame properties of OpenAIChatCompletion.completion *)

\* C18: completion never modifies the list object the caller passed as
\* messages: once the first vendor call has been made with it, whatever
\* rewrite and retry follow, the caller's list has the elements it had at that
\* call, in the same order.
C18_CallerMessagesUnchanged ==
    Len(Creates) >= 1 => heap[CallerList] = Creates[1].input

\* what one step of completion does to optional_params: nothing when headers
\* is null or empty, and otherwise at most the assignment of headers to the
\* key extra_headers
OptionalParamsStep ==
    IF ~Truthy(headers)
    THEN optional_params' = optional_params
    ELSE /\ DOMAIN optional_params' \subseteq DOMAIN optional_params \cup {"extra_headers"}
         /\ \A k \in DOMAIN optional_params \ {"extra_headers"} :
               k \in DOMAIN optional_params' /\ optional_params'[k] = optional_params[k]
         /\ "extra_headers" \in DOMAIN optional_params' =>
               optional_params'["extra_headers"] = headers

\* extra_headers is set as soon as the method has passed its first lines
ExtraHeadersSet ==
    (Truthy(headers) /\ pc \notin {"idle", "start"}) =>
        ("extra_headers" \in DOMAIN optional_params
            /\ optional_params["extra_headers"] = headers)

\* C19: completion leaves the caller's optional_params unchanged when headers
\* is null or empty (max_retries is popped from the payload, not from
\* optional_params, on both attempts); with non-empty headers its only change
\* is optional_params['extra_headers'] = headers, and it is made even in an
\* invocation that is then rejected with the 422 validation error.
C19_OptionalParamsFrame == [][OptionalParamsStep]_vars /\ []ExtraHeadersSet

\* C19 witness: with headers and max_retries given, the retry was made:
\* max_retries is still in optional_params and in neither payload
C19_Witness ==
    /\ Truthy(headers)
    /\ Len(Creates) = 2
    /\ "max_retries" \in DOMAIN optional_params
    /\ "max_retries" \notin DOMAIN Creates[1].payload
    /\ "max_retries" \notin DOMAIN Creates[2].payload
    /\ optional_params["extra_headers"] = headers

-----------------------------------------------------------------------------
(* The dispatch of OpenAIChatCompletion.completion *)

\* optional_params['stream'] is given and true
StreamRequested == "stream" \in DOMAIN optional_params /\ optional_params["stream"] = "True"

\* the step that an attempt takes from the dispatch
DispatchStep ==
    pc = "dispatch" =>
        IF acompletion /\ StreamRequested
        THEN /\ pc' = "async_streaming"
             /\ outcome' = Return("coroutine async_streaming")
             /\ attempt = 0 /\ log = << >> /\ log' = log
        ELSE IF acompletion
        THEN /\ pc' = "acompletion"
             /\ outcome' = Return("coroutine acompletion")
             /\ attempt = 0 /\ log = << >> /\ log' = log
        ELSE IF StreamRequested
        THEN pc' = "streaming_create" /\ outcome' = outcome
        ELSE pc' \in {"create", "except_inner"} /\ outcome' = outcome

\* C20: after validation each attempt takes exactly one of four paths, chosen
\* by acompletion and optional_params['stream'] alone: async_streaming,
\* acompletion, streaming, or the in-line synchronous call; on the two
\* asynchronous paths completion returns the coroutine on its first attempt,
\* having made no vendor call itself.
C20_DispatchByAcompletionAndStream == [][DispatchStep]_vars

\* C20 witness: acompletion with stream given as False: the coroutine of
\* acompletion was returned and no call has been made
C20_Witness ==
    /\ acompletion
    /\ "stream" \in DOMAIN optional_params
    /\ optional_params["stream"] = "False"
    /\ pc = "acompletion"
    /\ outcome = Return("coroutine acompletion")
    /\ log = << >>

-----------------------------------------------------------------------------
(* The order of logging and vendor calls in OpenAIChatCompletion.completion *)

IsLoggingOrVendorCall(ev) == ev.op \in {"pre_call", "create", "post_call"}

\* the calls on logging_obj and the vendor chat calls made so far, in order
LoggedCalls == SelectSeq(log, IsLoggingOrVendorCall)

\* the invocation is on the synchronous non-streaming path
SyncNonStreaming == pc # "idle" /\ ~acompletion /\ ~StreamRequested

\* C21: on the synchronous non-streaming path every vendor chat call is
\* immediately preceded by one pre_call with that attempt's messages and
\* payload, post_call is logged only right after a vendor call that succeeded
\* and before the response is returned, at most once, and an invocation that
\* retries logs pre_call, failed call, pre_call, call.
C21_LoggingOrder ==
    SyncNonStreaming =>
        LET l == LoggedCalls
        IN  /\ \A i \in 1..Len(l) :
                  /\ l[i].op = "create" =>
                        /\ i > 1
                        /\ l[i - 1].op = "pre_call"
                        /\ l[i - 1].payload = l[i].payload
                        /\ l[i - 1].input = l[i].input
                  /\ l[i].op = "pre_call" => (i = Len(l) \/ l[i + 1].op = "create")
                  /\ l[i].op = "post_call" =>
                        /\ i = Len(l)
                        /\ i > 1
                        /\ l[i - 1].op = "create"
                        /\ l[i - 1].raised = NoError
            /\ outcome.kind = "return" /\ outcome.value = "ModelResponse" =>
                  (Len(l) > 0 /\ l[Len(l)].op = "post_call")
            /\ Len(Creates) = 2 =>
                  /\ <<l[1].op, l[2].op, l[3].op, l[4].op>>
                        = <<"pre_call", "create", "pre_call", "create">>
                  /\ l[2].raised # NoError

\* C21 witness: a retried invocation whose second vendor call succeeded and
\* that has returned
C21_Witness ==
    /\ SyncNonStreaming
    /\ Len(Creates) = 2
    /\ Len(LoggedCalls) = 5
    /\ LoggedCalls[5].op = "post_call"
    /\ outcome = Return("ModelResponse")

-----------------------------------------------------------------------------
(* Properties of OpenAIChatCompletion.async_streaming *)

IsWrapper(ev) == ev.op = "CustomStreamWrapper"

\* the constructions of the stream wrapper made so far
Wrappers == SelectSeq(log, IsWrapper)

\* the coroutine of async_streaming was awaited and has ended
AsyncStreamingDone ==
    pc = "done" /\ outcome = Return("coroutine async_streaming") /\ awaited.kind # "running"

\* the failure of the awaited coroutine, NoError when nothing failed
AsyncStreamingFailure ==
    IF Creates[1].raised # NoError THEN Creates[1].raised ELSE Wrappers[1].raised

\* C22: async_streaming raises OpenAIError for every failure and nothing else:
\* when no response was obtained the status is 408 for an exception type named
\* ReadTimeout (with or without a status_code attribute), else the failure's
\* status_code when it has one, else 500; when a response with a text
\* attribute was obtained before the failure the status is 500.
C22_AsyncStreamingErrors ==
    AsyncStreamingDone =>
        LET f == AsyncStreamingFailure
        IN  /\ f # NoError <=> awaited.kind = "raise"
            /\ awaited.kind = "raise" => awaited.error.type = "OpenAIError"
            /\ Creates[1].raised # NoError =>
                  awaited.error.status_code =
                      IF f.type = "ReadTimeout" THEN 408
                      ELSE IF f.has_status THEN f.status_code
                      ELSE 500
            /\ (Creates[1].raised = NoError /\ f # NoError
                   /\ Wrappers[1].payload["completion_stream"] = "httpx.Response")
                  => awaited.error.status_code = 500

\* C22 witness: the vendor call raised a ReadTimeout that has a status_code
\* attribute, and the caller got status 408
C22_Witness ==
    /\ AsyncStreamingDone
    /\ Creates[1].raised.type = "ReadTimeout"
    /\ Creates[1].raised.has_status
    /\ awaited.kind = "raise"
    /\ awaited.error.status_code = 408

-----------------------------------------------------------------------------
(* Further properties of the map_openai_params methods *)

NoResponseFormatModels == {"gpt-3.5-turbo-16k", "gpt-4"}

IsNotResponseFormat(k) == k # "response_format"

\* C23: OpenAIConfig.get_supported_openai_params(model) contains
\* response_format for every model but gpt-3.5-turbo-16k and gpt-4, and is
\* otherwise the same list for every model; so map_openai_params leaves
\* response_format of optional_params alone for those two models, and writes
\* the given one for every other model.
C23_ResponseFormatPerModel ==
    map_called = "OpenAIConfig" =>
        /\ \A m \in InputModels :
              /\ "response_format" \in Range(OpenAIConfig_get_supported_openai_params(m))
                    <=> m \notin NoResponseFormatModels
              /\ SelectSeq(OpenAIConfig_get_supported_openai_params(m), IsNotResponseFormat)
                    = SelectSeq(OpenAIConfig_get_supported_openai_params(map_model),
                                IsNotResponseFormat)
        /\ map_model \in NoResponseFormatModels =>
              SameEntry(map_optional_params_in, map_returned, "response_format")
        /\ (map_model \notin NoResponseFormatModels
               /\ "response_format" \in DOMAIN non_default_params) =>
              /\ "response_format" \in DOMAIN map_returned
              /\ map_returned["response_format"] = non_default_params["response_format"]

\* C23 witness: for gpt-3.5-turbo-16k a response_format was given and the one
\* that optional_params had was kept
C23_Witness ==
    /\ map_called = "OpenAIConfig"
    /\ map_model = "gpt-3.5-turbo-16k"
    /\ "response_format" \in DOMAIN non_default_params
    /\ "response_format" \in DOMAIN map_optional_params_in
    /\ map_returned["response_format"] = map_optional_params_in["response_format"]
    /\ map_returned["response_format"] # non_default_params["response_format"]

MistralParams ==
    {"max_tokens", "tools", "stream", "temperature", "top_p", "tool_choice", "seed",
     "response_format"}

\* C24: MistralConfig.map_openai_params renames seed: with a seed given the
\* result's extra_body is exactly {random_seed: seed}, whatever extra_body
\* held before, and no top-level seed or random_seed key is added; a key
\* outside the eight handled ones is dropped; stream is written only when its
\* value is true.
C24_MistralSeedAndDrops ==
    map_called = "MistralConfig" =>
        /\ IF "seed" \in DOMAIN non_default_params
           THEN /\ "extra_body" \in DOMAIN map_returned
                /\ map_returned["extra_body"]
                      = DictOf("random_seed", non_default_params["seed"])
           ELSE SameEntry(map_optional_params_in, map_returned, "extra_body")
        /\ SameEntry(map_optional_params_in, map_returned, "seed")
        /\ SameEntry(map_optional_params_in, map_returned, "random_seed")
        /\ \A k \in (DOMAIN non_default_params \cup DOMAIN map_returned) \ MistralParams :
              k # "extra_body" => SameEntry(map_optional_params_in, map_returned, k)
        /\ IF "stream" \in DOMAIN non_default_params
              /\ EqualsTrue(non_default_params["stream"])
           THEN /\ "stream" \in DOMAIN map_returned
                /\ map_returned["stream"] = non_default_params["stream"]
           ELSE SameEntry(map_optional_params_in, map_returned, "stream")

\* C24 witness: a seed, a false stream and an unsupported key were given, and
\* the extra_body that optional_params held was replaced
C24_Witness ==
    /\ map_called = "MistralConfig"
    /\ {"seed", "stream", "top_k"} \subseteq DOMAIN non_default_params
    /\ ~EqualsTrue(non_default_params["stream"])
    /\ "extra_body" \in DOMAIN map_optional_params_in
    /\ map_returned["extra_body"] # map_optional_params_in["extra_body"]
    /\ "stream" \notin DOMAIN map_returned
    /\ "top_k" \notin DOMAIN map_returned

NoZeroTemperatureModel == "mistralai/Mistral-7B-Instruct-v0.1"

\* the value DeepInfraConfig.map_openai_params is to write for a supported key
DeepInfraForwarded(k) ==
    IF k = "temperature" /\ EqualsZero(non_default_params[k])
          /\ map_model = NoZeroTemperatureModel
    THEN "0.0001"
    ELSE non_default_params[k]

\* C25: DeepInfraConfig.map_openai_params writes 0.0001 for a temperature
\* equal to 0 given for mistralai/Mistral-7B-Instruct-v0.1, so the result's
\* temperature is then not zero; every other supported parameter, and the
\* temperature of every other model or with another value, is written
\* unchanged; an unsupported parameter is dropped.
C25_DeepInfraTemperature ==
    map_called = "DeepInfraConfig" =>
        /\ \A k \in DOMAIN non_default_params
                       \cap Range(DeepInfraConfig_get_supported_openai_params) :
              /\ k \in DOMAIN map_returned
              /\ map_returned[k] = DeepInfraForwarded(k)
        /\ \A k \in (DOMAIN non_default_params \cup DOMAIN map_returned)
                       \ Range(DeepInfraConfig_get_supported_openai_params) :
              SameEntry(map_optional_params_in, map_returned, k)
        /\ ("temperature" \in DOMAIN non_default_params
               /\ map_model = NoZeroTemperatureModel) =>
              ~EqualsZero(map_returned["temperature"])

\* C25 witness: a zero temperature given for the model was replaced, next to a
\* supported key written unchanged and an unsupported one dropped
C25_Witness ==
    /\ map_called = "DeepInfraConfig"
    /\ map_model = NoZeroTemperatureModel
    /\ {"temperature", "stream", "seed"} \subseteq DOMAIN non_default_params
    /\ EqualsZero(non_default_params["temperature"])
    /\ map_returned["temperature"] = "0.0001"
    /\ map_returned["stream"] = non_default_params["stream"]
    /\ "seed" \notin DOMAIN map_returned

-----------------------------------------------------------------------------
(* Further properties of the configuration classes *)

\* the constructions of cls so far that passed a non-null value for option k
PassedAt(cls, k) ==
    {i \in 1..Len(inits) : inits[i].cls = cls /\ inits[i].args[k] # None}

Latest(S) == CHOOSE i \in S : \A j \in S : j <= i

\* C26: after any sequence of constructions, get_config() of a class maps
\* each option to the value of the most recent construction of that class that
\* passed a non-null value for it, and has no entry for an option never passed
\* non-null; so a null argument clears nothing, and a construction of another
\* class changes nothing.
C26_ConfigIsLatestNonNull ==
    \A cls \in ConfigClasses :
        \A k \in Options(cls) :
            IF PassedAt(cls, k) = {}
            THEN k \notin DOMAIN get_config(cls)
            ELSE /\ k \in DOMAIN get_config(cls)
                 /\ get_config(cls)[k] = inits[Latest(PassedAt(cls, k))].args[k]

\* C26 witness: a class was constructed twice with different non-null values
\* for one option, and with a value and then null for another one
C26_Witness ==
    /\ Len(inits) = 2
    /\ inits[1].cls = inits[2].cls
    /\ \E k \in Options(inits[1].cls) :
          /\ inits[1].args[k] # None
          /\ inits[2].args[k] # None
          /\ inits[1].args[k] # inits[2].args[k]
          /\ get_config(inits[1].cls)[k] = inits[2].args[k]
    /\ \E k \in Options(inits[1].cls) :
          /\ inits[1].args[k] # None
          /\ inits[2].args[k] = None
          /\ get_config(inits[1].cls)[k] = inits[1].args[k]

-----------------------------------------------------------------------------
(* Error handling of embedding, image_generation and the text completion *)

RqOps(ops) == LET Test(ev) == ev.op \in ops IN SelectSeq(rq_log, Test)

RqVendorOps == {"embeddings.create", "images.generate", "completions.create"}

RqVendorCalls == RqOps(RqVendorOps)

RqPostCalls == RqOps({"post_call"})

\* max_retries of the request is not an int
RqBadMaxRetries == ~rq_optional_params.is_none /\ ~IsInt(RqMaxRetries)

\* the status an error is to have once normalised
StatusOr500(exc) == IF exc.has_status THEN exc.status_code ELSE 500

\* C27: embedding answers a max_retries that is not an int with OpenAIError
\* 422 and nothing logged, constructed or called; every other failure of the
\* synchronous path is raised as OpenAIError with the status_code of the
\* original error, or 500 when it has none; post_call is logged there only
\* after a vendor call that succeeded.
C27_EmbeddingErrors ==
    (rq_method = "embedding" /\ rq_pc = "done") =>
        /\ RqBadMaxRetries =>
              /\ rq_outcome = Raise(OpenAIError(422, {"max retries must be an int"}))
              /\ rq_log = << >>
        /\ (~rq_async /\ ~RqBadMaxRetries) =>
              /\ rq_outcome.kind \in {"return", "raise"}
              /\ rq_outcome.kind = "raise" =>
                    /\ rq_outcome.error.type = "OpenAIError"
                    /\ IF rq_optional_params.is_none
                       THEN rq_outcome.error.status_code = 500 /\ rq_log = << >>
                       ELSE /\ Len(RqVendorCalls) = 1
                            /\ RqVendorCalls[1].raised # NoError
                            /\ rq_outcome.error.status_code
                                  = StatusOr500(RqVendorCalls[1].raised)
                            /\ rq_outcome.error.str = RqVendorCalls[1].raised.str
              /\ Len(RqPostCalls) <= 1
              /\ Len(RqPostCalls) = 1 =>
                    /\ rq_outcome.kind = "return"
                    /\ rq_log[Len(rq_log)].op = "post_call"
                    /\ rq_log[Len(rq_log) - 1].op = "embeddings.create"
                    /\ rq_log[Len(rq_log) - 1].raised = NoError

\* C27 witness: the synchronous embedding failed on a vendor error that has a
\* status_code, which the raised OpenAIError carries, and no post_call followed
C27_Witness ==
    /\ rq_method = "embedding"
    /\ rq_pc = "done"
    /\ ~rq_async
    /\ Len(RqVendorCalls) = 1
    /\ RqVendorCalls[1].raised.has_status
    /\ rq_outcome.kind = "raise"
    /\ rq_outcome.error.status_code = 400
    /\ Len(RqPostCalls) = 0

\* C28: every failing synchronous invocation of image_generation, a failure
\* while the payload is built and the 422 of a max_retries that is not an int
\* included, logs exactly one post_call that carries the error text and then
\* raises OpenAIError, with the status_code of the original error or 500 when
\* it has none.
C28_ImageGenerationFailureLogsAndRaisesOpenAIError ==
    (rq_method = "image_generation" /\ rq_pc = "done" /\ rq_outcome.kind = "raise") =>
        /\ rq_outcome.error.type = "OpenAIError"
        /\ Len(RqPostCalls) = 1
        /\ RqPostCalls[1].original_response = rq_outcome.error.str
        /\ rq_log[Len(rq_log)].op = "post_call"
        /\ IF RqBadMaxRetries
           THEN rq_outcome.error.status_code = 422
           ELSE IF Len(RqVendorCalls) = 1
           THEN rq_outcome.error.status_code = StatusOr500(RqVendorCalls[1].raised)
           ELSE rq_outcome.error.status_code = 500

-----------------------------------------------------------------------------
(* OpenAIChatCompletion.ahealth_check *)

HealthModes == {"completion", "chat", "embedding", "image_generation", "audio_speech"}

RateLimitRequests == "x-ratelimit-remaining-requests"

RateLimitTokens == "x-ratelimit-remaining-tokens"

\* the value the vendor sends for a header
HeaderValue(k) ==
    IF k = RateLimitRequests THEN "99"
    ELSE IF k = RateLimitTokens THEN "1000"
    ELSE "application/json"

\* headers of a vendor response
InputHeaders ==
    {[k \in S |-> HeaderValue(k)] :
        S \in SUBSET {RateLimitRequests, RateLimitTokens, "content-type"}}

\* a raw response: an object with or without a `headers` attribute
RawResponse(has_headers, h) == [is_none |-> FALSE, has_headers |-> has_headers, headers |-> h]

NoRawResponse == [is_none |-> TRUE, has_headers |-> FALSE, headers |-> EmptyDict]

InputRawResponses ==
    {RawResponse(TRUE, h) : h \in InputHeaders} \cup {RawResponse(FALSE, EmptyDict)}

HealthVendorErrors == {x \in VendorErrors : x.str = {}}

Exception(message) ==
    [type |-> "Exception", has_status |-> FALSE, status_code |-> 0, str |-> {message}]

HcRunning == [kind |-> "running", value |-> EmptyDict, error |-> NoError]

HcReturn(d) == [kind |-> "return", value |-> d, error |-> NoError]

HcRaise(exc) == [kind |-> "raise", value |-> EmptyDict, error |-> exc]

\* one call on the vendor library: a constructor or a with_raw_response request
HcEvent(op, kwargs) == [op |-> op, kwargs |-> kwargs]

\* lines 1190-1195
HcClient == HcEvent("AsyncOpenAI", EmptyDict)

\* lines 1202-1229: the request of a mode and its keyword arguments
HcRequest(mode) ==
    CASE mode = "completion" ->
            HcEvent("completions.create",
                    [k \in {"model", "prompt"} |->
                        IF k = "model" THEN hc_model ELSE hc_prompt])
      [] mode = "chat" ->
            HcEvent("chat.completions.create",
                    [k \in {"model", "messages"} |->
                        IF k = "model" THEN hc_model ELSE hc_messages])
      [] mode = "embedding" ->
            HcEvent("embeddings.create",
                    [k \in {"model", "input"} |->
                        IF k = "model" THEN hc_model ELSE hc_input])
      [] mode = "image_generation" ->
            HcEvent("images.generate",
                    [k \in {"model", "prompt"} |->
                        IF k = "model" THEN hc_model ELSE hc_prompt])

\* a result that copies every header of the response
HealthResponseAllHeaders(h) == h

\* lines 1232-1246: the mapping built from the headers of the response
HealthResponse(h) ==
    LET r1 == IF Get(h, RateLimitRequests, None) # None
              THEN Put(EmptyDict, RateLimitRequests, h[RateLimitRequests])
              ELSE EmptyDict
        r2 == IF Get(h, RateLimitTokens, None) # None
              THEN Put(r1, RateLimitTokens, h[RateLimitTokens])
              ELSE r1
    IN  r2

\* lines 1196-1231: the input checks; "" when the request is to be made
HealthRejection ==
    IF hc_model = None /\ hc_mode # "image_generation" THEN "model is not set"
    ELSE IF hc_mode = "completion" THEN ""
    ELSE IF hc_mode = "chat"
    THEN (IF hc_messages = None THEN "messages is not set" ELSE "")
    ELSE IF hc_mode = "embedding"
    THEN (IF hc_input = None THEN "input is not set" ELSE "")
    ELSE IF hc_mode = "image_generation"
    THEN (IF hc_prompt = None THEN "prompt is not set" ELSE "")
    ELSE "mode not set"

InitHealth ==
    /\ hc_model \in {None, "gpt-4"}
    /\ hc_mode \in HealthModes
    /\ hc_messages \in {None, "[{role: user, content: hi}]"}
    /\ hc_input \in {None, "[hi]"}
    /\ hc_prompt \in {None, "a cat"}
    /\ hc_log = << >>
    /\ hc_completion = NoRawResponse
    /\ hc_pc = "start"
    /\ hc_outcome = HcRunning

\* ahealth_check is not under way
IdleHealth ==
    /\ hc_model = None
    /\ hc_mode = "idle"
    /\ hc_messages = None
    /\ hc_input = None
    /\ hc_prompt = None
    /\ hc_log = << >>
    /\ hc_completion = NoRawResponse
    /\ hc_pc = "idle"
    /\ hc_outcome = HcRunning

\* lines 1190-1231: ahealth_check up to the await of the vendor request
AhealthCheck ==
    /\ hc_pc = "start"
    /\ IF HealthRejection # ""
       THEN /\ hc_log' = <<HcClient>>
            /\ hc_outcome' = HcRaise(Exception(HealthRejection))
            /\ hc_pc' = "done"
       ELSE /\ hc_log' = <<HcClient, HcRequest(hc_mode)>>
            /\ hc_pc' = "awaiting"
            /\ UNCHANGED hc_outcome
    /\ UNCHANGED <<hc_model, hc_mode, hc_messages, hc_input, hc_prompt, hc_completion>>
    /\ UNCHANGED vars_not_health

\* lines 1232-1246: the vendor answers, or the request raises
AhealthCheckResume ==
    /\ hc_pc = "awaiting"
    /\ \/ \E exc \in HealthVendorErrors :
             /\ hc_outcome' = HcRaise(exc)
             /\ UNCHANGED hc_completion
       \/ \E r \in InputRawResponses :
             /\ hc_completion' = r
             /\ hc_outcome' = IF ~r.has_headers
                              THEN HcRaise(Exception("invalid completion response"))
                              ELSE HcReturn(HealthResponse(r.headers))
    /\ hc_pc' = "done"
    /\ UNCHANGED <<hc_model, hc_mode, hc_messages, hc_input, hc_prompt, hc_log>>
    /\ UNCHANGED vars_not_health

NextHealth == AhealthCheck \/ AhealthCheckResume

HcRequests == LET Test(ev) == ev.op # "AsyncOpenAI" IN SelectSeq(hc_log, Test)

\* the inputs that the method is to reject
HealthRejected ==
    \/ hc_model = None /\ hc_mode # "image_generation"
    \/ hc_mode = "chat" /\ hc_messages = None
    \/ hc_mode = "embedding" /\ hc_input = None
    \/ hc_mode = "image_generation" /\ hc_prompt = None
    \/ hc_mode \notin {"completion", "chat", "embedding", "image_generation"}

\* the vendor endpoint of a mode
HealthEndpoint(mode) ==
    CASE mode = "completion" -> "completions.create"
      [] mode = "chat" -> "chat.completions.create"
      [] mode = "embedding" -> "embeddings.create"
      [] mode = "image_generation" -> "images.generate"

\* C29: ahealth_check makes at most one vendor request, the one of its mode,
\* and none when it rejects the input, which it does with an exception for a
\* null model outside image_generation, null messages in chat, null input in
\* embedding, null prompt in image_generation, and any other mode; what it
\* returns has exactly the x-ratelimit-remaining-requests and
\* x-ratelimit-remaining-tokens entries of the response headers.
C29_HealthCheck ==
    hc_pc \in {"awaiting", "done"} =>
        /\ IF HealthRejected
           THEN /\ HcRequests = << >>
                /\ hc_pc = "done"
                /\ hc_outcome.kind = "raise"
           ELSE /\ Len(HcRequests) = 1
                /\ HcRequests[1].op = HealthEndpoint(hc_mode)
        /\ hc_outcome.kind = "return" =>
              /\ hc_completion.has_headers
              /\ DOMAIN hc_outcome.value
                    = DOMAIN hc_completion.headers \cap {RateLimitRequests, RateLimitTokens}
              /\ \A k \in DOMAIN hc_outcome.value :
                    hc_outcome.value[k] = hc_completion.headers[k]

\* C29 witness: an image_generation check without a model made its one
\* request, and the answer had one of the two headers next to another one
C29_Witness ==
    /\ hc_pc = "done"
    /\ hc_mode = "image_generation"
    /\ hc_model = None
    /\ Len(HcRequests) = 1
    /\ hc_outcome.kind = "return"
    /\ DOMAIN hc_completion.headers = {RateLimitRequests, "content-type"}
    /\ DOMAIN hc_outcome.value = {RateLimitRequests}


\* some message of the list has no "content" key where the code reads it
ContentMissing(msgs) ==
    /\ \E i \in 1..Len(msgs) : ~msgs[i].has_content
    /\ ~(msgs # << >> /\ msgs[1].has_content /\ msgs[1].content.is_list)

\* the prompt that the text completion is to send for msgs
ExpectedPrompt(msgs) ==
    IF msgs # << >> /\ msgs[1].has_content /\ msgs[1].content.is_list
    THEN msgs[1].content.items
    ELSE [i \in 1..Len(msgs) |-> msgs[i].content.str]

RqMissingModelOrMessages == rq_model = None \/ rq_messages.is_none

\* C30: the prompt of OpenAITextCompletion.completion is the content list of
\* the first message alone when that content is a list, and otherwise the list
\* of the contents of all messages in order; a null model or null messages is
\* answered with OpenAIError 422 and nothing logged or called; every other
\* failure of the synchronous call is raised as it is, not wrapped.
C30_TextCompletionPrompt ==
    (rq_method = "text_completion" /\ rq_pc # "start") =>
        /\ RqMissingModelOrMessages =>
              /\ rq_outcome = Raise(OpenAIError(422, {"Missing model or messages"}))
              /\ rq_log = << >>
        /\ \A i \in 1..Len(rq_log) :
              "prompt" \in DOMAIN rq_log[i].payload =>
                  rq_log[i].payload["prompt"] = ExpectedPrompt(rq_messages.list)
        /\ (~RqMissingModelOrMessages /\ ~ContentMissing(rq_messages.list)
               /\ ~rq_optional_params.is_none) =>
              /\ rq_log # << >>
              /\ rq_log[1].op = "pre_call"
              /\ "prompt" \in DOMAIN rq_log[1].payload
              /\ \A i \in 1..Len(RqVendorCalls) :
                    "prompt" \in DOMAIN RqVendorCalls[i].payload
        /\ (rq_outcome.kind = "raise" /\ ~RqMissingModelOrMessages) =>
              IF RqVendorCalls # << >>
              THEN rq_outcome.error = RqVendorCalls[1].raised
              ELSE /\ rq_log = << >>
                   /\ rq_outcome.error
                         = IF ContentMissing(rq_messages.list)
                           THEN ContentKeyError
                           ELSE TypeError

\* C30 witness: the first of three messages held a list, which alone was sent
\* as the prompt, and the vendor's error reached the caller as it was
C30_Witness ==
    /\ rq_method = "text_completion"
    /\ rq_pc = "done"
    /\ Len(rq_messages.list) = 3
    /\ rq_messages.list[1].content.is_list
    /\ ~rq_messages.list[2].content.is_list
    /\ Len(RqVendorCalls) = 1
    /\ RqVendorCalls[1].payload["prompt"] = rq_messages.list[1].content.items
    /\ RqVendorCalls[1].raised.type = "APIError"
    /\ rq_outcome = Raise(RqVendorCalls[1].raised)

-----------------------------------------------------------------------------
(* Specifications *)

\* one invocation of OpenAIChatCompletion.completion
Init == InitCompletion /\ InitConfig /\ IdleMap /\ IdleConvert /\ IdleRequest /\ IdleClient
        /\ IdleHealth

Next == NextCompletion

Spec == Init /\ [][Next]_vars

\* constructions of configuration objects
InitSpecConfig ==
    IdleCompletion /\ InitConfig /\ IdleMap /\ IdleConvert /\ IdleRequest /\ IdleClient
        /\ IdleHealth

SpecConfig == InitSpecConfig /\ [][NextConfig]_vars

\* one call of map_openai_params
InitSpecMap ==
    IdleCompletion /\ InitConfig /\ InitMap /\ IdleConvert /\ IdleRequest /\ IdleClient
        /\ IdleHealth

SpecMap == InitSpecMap /\ [][NextMap]_vars

\* one call of convert_to_chat_model_response_object
InitSpecConvert ==
    IdleCompletion /\ InitConfig /\ IdleMap /\ InitConvert /\ IdleRequest /\ IdleClient
        /\ IdleHealth

SpecConvert == InitSpecConvert /\ [][NextConvert]_vars

\* one invocation of one of the four methods that send a request payload:
\* OpenAIChatCompletion.completion, embedding, image_generation, or
\* OpenAITextCompletion.completion
InitSpecRequests ==
    /\ InitConfig /\ IdleMap /\ IdleConvert /\ IdleClient /\ IdleHealth
    /\ \/ InitCompletion /\ IdleRequest
       \/ IdleCompletion /\ InitRequest

NextRequests == NextCompletion \/ NextRequest

SpecRequests == InitSpecRequests /\ [][NextRequests]_vars

\* one call of get_openai_client
InitSpecClient ==
    IdleCompletion /\ InitConfig /\ IdleMap /\ IdleConvert /\ IdleRequest /\ InitClient
        /\ IdleHealth

SpecClient == InitSpecClient /\ [][NextClient]_vars

\* one invocation of OpenAIChatCompletion.ahealth_check
InitSpecHealth ==
    IdleCompletion /\ InitConfig /\ IdleMap /\ IdleConvert /\ IdleRequest /\ IdleClient
        /\ InitHealth

SpecHealth == InitSpecHealth /\ [][NextHealth]_vars

=============================================================================
